---- MODULE Spec2Model ----
(***************************************************************************)
(* The export pipeline of the story player: generateStoryVideo renders a   *)
(* story (cover intro, scenes, transitions, outro) onto a canvas that a    *)
(* MediaRecorder captures, timing every segment against the audio clock.   *)
(*                                                                         *)
(* Time is counted in clock units of 1/FPS second, so the frame interval   *)
(* of 1000/FPS ms is one unit.  The code reads the audio clock only as    *)
(* elapsed = audioCtx.currentTime - <segment start>, so the state holds    *)
(* that difference for the segment being rendered.                         *)
(***************************************************************************)
EXTENDS Integers, Sequences, FiniteSets, TLC

\* ------------------------------------------------------------------ bounds
MaxScenes == 2
MaxJitter == 1
MaxEdits == 1
MaxLatency == 1
Samples == 5
MaxClipPos == 1
MaxChars == 13
MaxCalls == 2
MaxNodes == 3
MaxStories == 3
MaxBatchScenes == 4
MaxPolls == 2
MaxTopics == 5
MaxRefreshes == 3
Horizon == 3

\* ------------------------------------------------------- program constants
FPS == 30
FRAME_INTERVAL == 1

Seconds(num, den) == (num * FPS) \div den
Millis(ms) == (ms * FPS) \div 1000

introDuration == Seconds(3, 1)
introPause_None == Millis(0)
introPause == Millis(300)
silentDuration == Seconds(3, 1)
minSceneDuration == Seconds(2, 1)
clipFallbackDuration == Seconds(2, 1)
transitionDuration == Seconds(1, 1)
fadeDuration == Seconds(3, 2)
finalHold == Millis(500)

\* ------------------------------------------------------ environment values
\* HTMLMediaElement.duration is NaN (no metadata), a number >= 0, or +Infinity.
NaN == 0 - 1
Infinity == 0 - 2
ClipDurations == {NaN, 0, Seconds(2, 3), Infinity}
\* AudioBuffer.duration of a decoded narration: 1.0 s and 4.2 s.
AudioDurations == {Seconds(1, 1), Seconds(42, 10)}
NoBuffer == 0 - 1
Jitters == 0..MaxJitter
Latencies == 0..MaxLatency

Max(a, b) == IF a >= b THEN a ELSE b

VARIABLES
    pc,               \* position of the async function
    story,            \* [cover, n, transitionVideoUrl]: the fields read from the story
    visualAssets,     \* per scene "img" or "vid"
    transitionAssets, \* per scene "null" or "vid"
    i,                \* loop index of the main story loop (0-based)
    elapsed,          \* audioCtx.currentTime - <start time of the segment being rendered>
    duration,         \* duration of the segment being rendered
    clipDur,          \* transitionVideo.duration as read at the transition
    audioBuffer,      \* decoded narration duration, or NoBuffer
    source,           \* TRUE while the narration source node is started
    playing,          \* the video elements that are playing
    recorder,         \* "none", "recording", "stopping", "inactive"
    audioCtx,         \* "none", "running", "closed"
    onstop,           \* TRUE once recorder.onstop is set
    chunks,           \* number of chunks pushed by ondataavailable
    blob,             \* "none" or "blob": the blob handed to the caller
    promise,          \* "pending", "resolved", "rejected"
    canvas,           \* what the last compositing call drew
    drawRec,          \* recorder state at the last compositing call
    segLog,           \* the segments started so far, in order
    overrun,          \* audio-clock time since the first part started (the intro,
                      \* or scene 0 without a cover), minus the durations of the
                      \* parts finished since then
    coverAsset,       \* "null" or "img": the cover element
    progLog,          \* the onProgress calls so far: <<percent * N, segments started>>
    endedBy,          \* what ended the part rendered last: "none", "audioClock", "timer"
    audioLead,        \* audio-clock time from source.start() to sceneStartTime
    lv,               \* the loadVideo calls in flight or settled, when the preload
                      \* is followed handler by handler: call -> [promise, events]
    edits,            \* the scene fields a generation handler wrote during the export
    enc,              \* the encoder format on its way from the probes to the
                      \* downloaded file: [pc, caller, supported, mimeType, blobType, ext]
    cv,               \* the canvas frame by frame: [part, k, e, px, fillStyle] and
                      \* the assets drawn on it: [cover, assets, trans]
    sub,              \* one drawSubtitles call: [pc, w, h, font, text, currentLine,
                      \* lines], font being the measured width of each glyph
    player,           \* the StoryPlayer component: [state, screen, exports, plays,
                      \* sourceNodeRef, sounding, pressed]
    app,              \* the App component and local storage
    topics,           \* one handleRefreshTopics call and the service call it makes
    batch,            \* one handleBatchGenerateTransitions run
    veo               \* one generateVeoScene or generateVeoTransition call

assetVars == <<story, visualAssets, transitionAssets>>
sceneVars == <<audioBuffer, source>>
recVars == <<recorder, audioCtx, promise>>
outVars == <<onstop, chunks, blob>>
drawVars == <<canvas, drawRec>>
handlerVars == <<lv, edits>>

\* the state of one generateStoryVideo call
exportVars == <<pc, i, elapsed, duration, clipDur, playing, segLog, overrun,
                coverAsset, progLog, endedBy, audioLead,
                assetVars, sceneVars, recVars, outVars, drawVars, handlerVars>>
\* the state of the units that are followed on their own
appVars == <<app, topics, batch, veo>>
unitVars == <<enc, cv, sub, player, appVars>>

vars == <<exportVars, unitVars>>

Stories ==
    { [cover |-> c, n |-> n, transitionVideoUrl |-> t] :
        c \in BOOLEAN, n \in 1..MaxScenes,
        t \in UNION { { f \in [1..m -> BOOLEAN] : f[m] = FALSE } : m \in 1..MaxScenes } }

ExportInit ==
    /\ pc = "start"
    /\ story \in { s \in Stories : DOMAIN s.transitionVideoUrl = 1..s.n }
    /\ visualAssets = <<>>
    /\ transitionAssets = <<>>
    /\ i = 0
    /\ elapsed = 0
    /\ duration = 0
    /\ clipDur = NaN
    /\ audioBuffer = NoBuffer
    /\ source = FALSE
    /\ playing = {}
    /\ recorder = "none"
    /\ audioCtx = "none"
    /\ onstop = FALSE
    /\ chunks = 0
    /\ blob = "none"
    /\ promise = "pending"
    /\ canvas = "none"
    /\ drawRec = "none"
    /\ segLog = <<>>
    /\ overrun = 0
    /\ coverAsset = "null"
    /\ progLog = <<>>
    /\ endedBy = "none"
    /\ audioLead = 0
    /\ lv = <<>>
    /\ edits = {}

EncIdle == [pc |-> "idle", caller |-> "none", supported |-> {},
            mimeType |-> <<>>, blobType |-> <<>>, ext |-> "none"]

CvIdle == [part |-> "idle", k |-> 0, e |-> 0 - 1, px |-> <<>>, fillStyle |-> 0,
           cover |-> "null", assets |-> <<>>, trans |-> <<>>]

SubIdle == [pc |-> "idle", w |-> 0, h |-> 0, font |-> [a |-> 0, b |-> 0], text |-> <<>>,
            currentLine |-> <<>>, lines |-> <<>>]

\* useState(...) of StoryPlayer.tsx lines 21-50, as far as followed here
Mounted == [isExporting |-> FALSE, showMagicMenu |-> FALSE, showShareMenu |-> FALSE,
            showCoverModal |-> FALSE, currentIndex |-> 0, isPlaying |-> FALSE]
NoNode == 0 - 1
\* state: the values the setters have set; screen: the values of the render whose
\* handlers are on screen; exports: the generateStoryVideo calls in flight,
\* by caller; plays: the playAudio calls in flight; sounding: the source
\* nodes started and neither stopped nor ended, each with the scene it
\* plays; sourceNodeRef: the node held in the ref; pressed: play was
\* pressed since the scene last changed; settled: how the export that
\* settled last did so; nodes: the playAudio calls made so far, call k
\* creating source node k
PlayerIdle == [state |-> Mounted, screen |-> Mounted, exports |-> <<>>, plays |-> {},
               sourceNodeRef |-> NoNode, sounding |-> {}, pressed |-> FALSE,
               settled |-> "none", nodes |-> 0]

\* App.tsx lines 12-20: the App component before it is mounted.  A story object
\* lives in heap, by id; savedStories and the closure of a running
\* handleGenerate hold references to it; storage holds the JSON text written
\* last, story by story; deleted: the ids handleDeleteStory was called for
AppView == [savedStories |-> <<>>, currentStory |-> 0, isLoading |-> FALSE]
AppIdle == [pc |-> "idle", state |-> AppView, screen |-> AppView,
            gen |-> [active |-> FALSE, saved |-> <<>>],
            heap |-> <<>>, storage |-> <<>>, deleted |-> {}]
\* App.tsx lines 22-24: the topic state before the mount effect.  calls: the
\* handleRefreshTopics calls in flight, by number; started: how many were
\* started; returned: what generateRecommendedTopics returned last
TopicsView == [recommendedTopics |-> <<>>, isTopicsLoading |-> FALSE]
TopicsIdle == [pc |-> "idle", state |-> TopicsView, screen |-> TopicsView,
               calls |-> {}, started |-> 0,
               returned |-> [rejected |-> FALSE, value |-> <<>>]]
\* StoryPlayer.tsx lines 33-34 and 222-231: no batch run yet.  urls, images:
\* per scene, whether it has a transitionVideoUrl and an imageData; waited:
\* the one-second waits finished since the last request; requests: the
\* generateVeoSequence calls made so far
BatchIdle == [pc |-> "idle", isBatchGenerating |-> FALSE, i |-> 0, s |-> 0,
              successCount |-> 0, urls |-> <<>>, images |-> <<>>,
              waited |-> 0, requests |-> <<>>]
\* part_000 lines 812-816 and 894-897: no call yet.  host: window.aistudio
\* exists; runs: the executeGeneration calls started; polls: the polls of the
\* run under way; dialogs: the openSelectKey calls made; thrown: what the
\* first run threw (NoError: nothing);
\* result: "pending", "url", "null" or "rejected"
NoError == [message |-> <<"none">>]
VeoIdle == [pc |-> "idle", fn |-> "none", host |-> FALSE, runs |-> 0, polls |-> 0,
            dialogs |-> 0, thrown |-> NoError, result |-> "pending"]

AppsIdle ==
    /\ app = AppIdle
    /\ topics = TopicsIdle
    /\ batch = BatchIdle
    /\ veo = VeoIdle

\* none of the units that are followed on their own has started
UnitsIdle ==
    /\ enc = EncIdle
    /\ cv = CvIdle
    /\ sub = SubIdle
    /\ player = PlayerIdle
    /\ AppsIdle

Init ==
    /\ ExportInit
    /\ UnitsIdle

\* ------------------------------------------------------------ pure helpers
Formats == {"mp4-avc1", "mp4", "webm-vp9", "webm"}

\* The format handed to the MediaRecorder constructor.
SelectMimeType(supported) ==
    IF "mp4-avc1" \in supported THEN "mp4-avc1"
    ELSE IF "mp4" \in supported THEN "mp4"
    ELSE IF "webm-vp9" \in supported THEN "webm-vp9"
    ELSE "webm"

\* loadVideo resolves with the element only when its data loaded first.
LoadVideo(url, loaded) == IF url /\ loaded THEN "vid" ELSE "null"

LoadImage_NullOnError(decoded) == IF decoded THEN "img" ELSE "null"
\* loadImage resolves with the element from onload and from onerror alike.
LoadImage(decoded) == IF decoded THEN "img" ELSE "img"

\* Scene video first, the still image when there is no clip or it did not load.
LoadVisual(videoUrl, loaded, decoded) ==
    IF videoUrl /\ LoadVideo(videoUrl, loaded) = "vid"
    THEN "vid"
    ELSE LoadImage(decoded)

\* if (coverAsset): the cover element exists exactly when a cover was supplied
HasCoverAsset_Never(s) == FALSE
HasCoverAsset(s) == s.cover

SceneDuration_FloorOnly(buf) == minSceneDuration
SceneDuration_SilentAtFloor(buf) ==
    Max(IF buf # NoBuffer THEN buf ELSE minSceneDuration, minSceneDuration)
SceneDuration_NoFloor(buf) == IF buf # NoBuffer THEN buf ELSE silentDuration
\* const duration = Math.max(audioBuffer ? audioBuffer.duration : 3.0, 2.0)
SceneDuration(buf) ==
    Max(IF buf # NoBuffer THEN buf ELSE silentDuration, minSceneDuration)

TDuration_NoFallback(d) == d
TDuration_Clamped(d) ==
    IF d = NaN \/ d = 0 THEN clipFallbackDuration
    ELSE IF d = Infinity THEN d ELSE Max(d, transitionDuration)
\* const tDuration = transitionVideo.duration || 2.0
TDuration(d) == IF d = NaN \/ d = 0 THEN clipFallbackDuration ELSE d

Reached_OneFrameEarly(e, dur) ==
    IF dur = Infinity THEN FALSE ELSE e + FRAME_INTERVAL >= dur
Reached_AfterDuration(e, dur) == IF dur = Infinity THEN FALSE ELSE e > dur
\* if (elapsed >= duration) break
Reached(e, dur) == IF dur = Infinity THEN FALSE ELSE e >= dur

PreloadFinished_OneShort(k, n) == k >= n - 1
\* for (let i = 0; i < story.scenes.length; i++): the preload loop has ended
PreloadFinished(k, n) == k >= n

TransitionMode_AlwaysSlide(tAsset) == "transSynth"
\* if (transitionVideo) ... else ...  : which loop renders transition i
TransitionMode(tAsset) == IF tAsset = "vid" THEN "transClip" ELSE "transSynth"

EndedBy_AlwaysClock(part) == "audioClock"
\* What ends each part: the loops break on elapsed >= duration (lines 121,
\* 193, 241, 262, 293); the black pause and the final hold are a setTimeout
\* (lines 146, 309).
EndedBy(part) ==
    IF part \in {"introPause", "hold"} THEN "timer" ELSE "audioClock"

\* The next reading of elapsed after a timer of dt units that fired j units
\* late.  In a segment of unbounded duration the reading is only ever compared
\* with Infinity, and is kept modulo Horizon + 1.
Sleep(dt, j) ==
    IF duration = Infinity
    THEN (elapsed + dt + j) % (Horizon + 1)
    ELSE elapsed + dt + j

\* scene.videoUrl as the preload reads it: set or not in the story handed
\* in, and set when a generation handler has written it since
VideoUrls(k) == IF <<"videoUrl", k>> \in edits THEN {TRUE} ELSE BOOLEAN

\* The percent handed to onProgress, times the number of scenes N (so that
\* (i / N) * 20 is the integer i * 20).
\* onProgress((i / story.scenes.length) * 20, ...)
LoadProgress(k, n) == k * 20
SceneProgress_FromZero(k, n) == k * 70
\* onProgress(20 + (i / story.scenes.length) * 70, ...)
SceneProgress(k, n) == 20 * n + k * 70
\* onProgress(99, ...)
OutroProgress(n) == 99 * n

OnProgress_Dropped(p) == progLog' = progLog
\* a call of the progress callback, noted with the number of segments started
OnProgress(p) == progLog' = Append(progLog, <<p, Len(segLog)>>)

\* ctx.drawImage / fillRect on the captured canvas
Draw(what) == /\ canvas' = what
              /\ drawRec' = recorder

\* catch (err) { throw err } finally { recorder.stop(); audioCtx.close(); }
Fail ==
    /\ pc' = "failed"
    /\ recorder' = "stopping"
    /\ audioCtx' = "closed"
    /\ promise' = "rejected"

\* ------------------------------------------------------------------ actions
Setup_NotStarted ==
    /\ pc = "start"
    /\ audioCtx' = "running"
    /\ \E supported \in SUBSET Formats, startThrows \in BOOLEAN :
         LET mimeType == SelectMimeType(supported) IN
         IF mimeType \notin supported
         THEN /\ pc' = "setupFailed"
              /\ recorder' = "none"
              /\ promise' = "rejected"
         ELSE IF startThrows
         THEN /\ pc' = "setupFailed"
              /\ recorder' = "inactive"
              /\ promise' = "rejected"
         ELSE /\ pc' = "loadCover"
              /\ recorder' = "inactive"
              /\ promise' = promise
    /\ UNCHANGED <<unitVars, coverAsset, progLog, endedBy, audioLead, handlerVars,
                   i, elapsed, duration, clipDur, playing, segLog, overrun,
                   assetVars, sceneVars, outVars, drawVars>>

\* lines 12-60: canvas, audio context, stream, recorder construction and start
Setup ==
    /\ pc = "start"
    /\ audioCtx' = "running"
    /\ \E supported \in SUBSET Formats, startThrows \in BOOLEAN :
         LET mimeType == SelectMimeType(supported) IN
         IF mimeType \notin supported
         THEN /\ pc' = "setupFailed"
              /\ recorder' = "none"
              /\ promise' = "rejected"
         ELSE IF startThrows
         THEN /\ pc' = "setupFailed"
              /\ recorder' = "inactive"
              /\ promise' = "rejected"
         ELSE /\ pc' = "loadCover"
              /\ recorder' = "recording"
              /\ promise' = promise
    /\ UNCHANGED <<unitVars, coverAsset, progLog, endedBy, audioLead, handlerVars,
                   i, elapsed, duration, clipDur, playing, segLog, overrun,
                   assetVars, sceneVars, outVars, drawVars>>

\* lines 63-76: the cover image loads or fails to load; onload and onerror
\* resolve alike, as in loadImage
LoadCover ==
    /\ pc = "loadCover"
    /\ pc' = "preload"
    /\ i' = 0
    /\ \E decoded \in BOOLEAN :
         coverAsset' = IF story.cover THEN LoadImage(decoded) ELSE "null"
    /\ IF story.cover THEN OnProgress(0) ELSE UNCHANGED progLog
    /\ UNCHANGED <<unitVars, endedBy, audioLead, handlerVars,
                   elapsed, duration, clipDur, playing, segLog, overrun,
                   assetVars, sceneVars, recVars, outVars, drawVars>>

\* lines 82-106: one iteration of the preload loop
PreloadScene ==
    /\ pc = "preload"
    /\ ~PreloadFinished(i, story.n)
    /\ \E videoUrl \in VideoUrls(i), loaded \in BOOLEAN, decoded \in BOOLEAN,
          tLoaded \in BOOLEAN :
         /\ visualAssets' =
              Append(visualAssets, LoadVisual(videoUrl, loaded, decoded))
         /\ transitionAssets' =
              Append(transitionAssets,
                     IF story.transitionVideoUrl[i + 1]
                     THEN LoadVideo(story.transitionVideoUrl[i + 1], tLoaded)
                     ELSE "null")
    /\ i' = i + 1
    /\ OnProgress(LoadProgress(i, story.n))
    /\ UNCHANGED <<unitVars, coverAsset, endedBy, audioLead, handlerVars,
                   pc, story, elapsed, duration, clipDur, playing, segLog,
                   overrun, sceneVars, recVars, outVars, drawVars>>

\* lines 108-115: the preload loop is over; the intro starts when there is a cover
PreloadDone ==
    /\ pc = "preload"
    /\ PreloadFinished(i, story.n)
    /\ i' = 0
    /\ IF HasCoverAsset(story)
       THEN /\ pc' = "intro"
            /\ elapsed' = 0
            /\ duration' = introDuration
            /\ segLog' = Append(segLog, <<"intro">>)
       ELSE /\ pc' = "sceneInit"
            /\ UNCHANGED <<elapsed, duration, segLog>>
    /\ UNCHANGED <<unitVars, coverAsset, progLog, endedBy, audioLead, handlerVars,
                   clipDur, playing, overrun, assetVars, sceneVars, recVars,
                   outVars, drawVars>>

\* lines 117-142: one frame of the cover intro
IntroDraw ==
    /\ pc = "intro"
    /\ ~Reached(elapsed, duration)
    /\ Draw("cover")
    /\ \E j \in Jitters : elapsed' = Sleep(FRAME_INTERVAL, j)
    /\ UNCHANGED <<unitVars, coverAsset, progLog, endedBy, audioLead, handlerVars,
                   pc, i, duration, clipDur, playing, segLog, overrun,
                   assetVars, sceneVars, recVars, outVars>>

\* lines 121, 143-146: the intro is over; black frame, then setTimeout(r, 300)
IntroExit ==
    /\ pc = "intro"
    /\ Reached(elapsed, duration)
    /\ Draw("black")
    /\ pc' = "introPause"
    /\ duration' = introPause
    /\ overrun' = elapsed - duration
    /\ endedBy' = EndedBy(pc)
    /\ UNCHANGED <<unitVars, coverAsset, progLog, audioLead, handlerVars,
                   i, elapsed, clipDur, playing, segLog,
                   assetVars, sceneVars, recVars, outVars>>

\* line 146: the 300 ms timer fires, possibly late; the clock is not read
IntroPauseExit ==
    /\ pc = "introPause"
    /\ pc' = "sceneInit"
    /\ \E j \in Jitters : overrun' = overrun + j
    /\ endedBy' = EndedBy(pc)
    /\ UNCHANGED <<unitVars, coverAsset, progLog, audioLead, handlerVars,
                   i, elapsed, duration, clipDur, playing, segLog,
                   assetVars, sceneVars, recVars, outVars, drawVars>>

\* lines 150-186: top of the main loop for scene i: decode the narration, start
\* the source node, start the scene clip, note sceneStartTime
SceneInit ==
    /\ pc = "sceneInit"
    /\ i < story.n
    /\ \E buf \in AudioDurations \cup {NoBuffer}, lat \in Latencies,
          plat \in Latencies, played \in BOOLEAN :
         LET isVideo == visualAssets[i + 1] = "vid"
             waited == lat + (IF isVideo THEN plat ELSE 0)
         IN
         /\ audioBuffer' = buf
         /\ duration' = SceneDuration(buf)
         /\ source' = (buf # NoBuffer)
         /\ elapsed' = 0
         /\ IF isVideo /\ ~played
            THEN /\ Fail
                 /\ audioLead' = 0
                 /\ UNCHANGED <<playing, segLog, overrun>>
            ELSE /\ pc' = "scene"
                 /\ audioLead' = IF buf # NoBuffer /\ isVideo THEN plat ELSE 0
                 /\ playing' = IF isVideo THEN playing \cup {<<"scene", i>>} ELSE playing
                 /\ segLog' = Append(segLog, <<"scene", i>>)
                 /\ overrun' = IF i = 0 /\ ~HasCoverAsset(story)
                                THEN 0 ELSE overrun + waited
                 /\ UNCHANGED recVars
    /\ OnProgress(SceneProgress(i, story.n))
    /\ UNCHANGED <<unitVars, coverAsset, endedBy, handlerVars,
                   i, clipDur, assetVars, outVars, drawVars>>

\* lines 189-221: one frame of scene i (asset and subtitles)
SceneDraw ==
    /\ pc = "scene"
    /\ ~Reached(elapsed, duration)
    /\ Draw("scene")
    /\ \E j \in Jitters : elapsed' = Sleep(FRAME_INTERVAL, j)
    /\ UNCHANGED <<unitVars, coverAsset, progLog, endedBy, audioLead, handlerVars,
                   pc, i, duration, clipDur, playing, segLog, overrun,
                   assetVars, sceneVars, recVars, outVars>>

\* lines 193, 223-236: scene i is over and a transition clip was loaded for it;
\* tStartTime is taken before the clip's play() is awaited
SceneExitToClip ==
    /\ pc = "scene"
    /\ Reached(elapsed, duration)
    /\ i + 1 < story.n
    /\ TransitionMode(transitionAssets[i + 1]) = "transClip"
    /\ source' = FALSE
    /\ \E d \in ClipDurations, plat \in Latencies, played \in BOOLEAN :
         /\ clipDur' = d
         /\ duration' = TDuration(d)
         /\ elapsed' = plat
         /\ IF played
            THEN /\ pc' = "transClip"
                 /\ playing' = playing \cup {<<"transition", i>>}
                 /\ segLog' = Append(segLog, <<"transition", i>>)
                 /\ overrun' = overrun + (elapsed - duration)
                 /\ UNCHANGED recVars
            ELSE /\ Fail
                 /\ UNCHANGED <<playing, segLog, overrun>>
    /\ endedBy' = EndedBy(pc)
    /\ audioLead' = 0
    /\ UNCHANGED <<unitVars, coverAsset, progLog, handlerVars,
                   i, audioBuffer, assetVars, outVars, drawVars>>

\* lines 193, 223-255: scene i is over and no transition clip was loaded for it
SceneExitToSlide ==
    /\ pc = "scene"
    /\ Reached(elapsed, duration)
    /\ i + 1 < story.n
    /\ TransitionMode(transitionAssets[i + 1]) = "transSynth"
    /\ source' = FALSE
    /\ pc' = "transSynth"
    /\ duration' = transitionDuration
    /\ elapsed' = 0
    /\ playing' = IF visualAssets[i + 2] = "vid"
                  THEN playing \cup {<<"scene", i + 1>>} ELSE playing
    /\ segLog' = Append(segLog, <<"transition", i>>)
    /\ overrun' = overrun + (elapsed - duration)
    /\ endedBy' = EndedBy(pc)
    /\ audioLead' = 0
    /\ UNCHANGED <<unitVars, coverAsset, progLog, handlerVars,
                   i, clipDur, audioBuffer, assetVars, recVars, outVars, drawVars>>

\* lines 193, 223-229, 280-286: the last scene is over; the outro fade starts
SceneExitToOutro ==
    /\ pc = "scene"
    /\ Reached(elapsed, duration)
    /\ i + 1 >= story.n
    /\ source' = FALSE
    /\ i' = i + 1
    /\ pc' = "outro"
    /\ duration' = fadeDuration
    /\ elapsed' = 0
    /\ segLog' = Append(segLog, <<"outro">>)
    /\ overrun' = overrun + (elapsed - duration)
    /\ endedBy' = EndedBy(pc)
    /\ audioLead' = 0
    /\ OnProgress(OutroProgress(story.n))
    /\ UNCHANGED <<unitVars, coverAsset, handlerVars, audioBuffer,
                   clipDur, playing, assetVars, recVars, outVars, drawVars>>

\* lines 238-245: one frame of the transition clip
ClipDraw ==
    /\ pc = "transClip"
    /\ ~Reached(elapsed, duration)
    /\ Draw("clip")
    /\ \E j \in Jitters : elapsed' = Sleep(FRAME_INTERVAL, j)
    /\ UNCHANGED <<unitVars, coverAsset, progLog, endedBy, audioLead, handlerVars,
                   pc, i, duration, clipDur, playing, segLog, overrun,
                   assetVars, sceneVars, recVars, outVars>>

\* lines 257-272: one frame of the synthesized slide
SlideDraw ==
    /\ pc = "transSynth"
    /\ ~Reached(elapsed, duration)
    /\ Draw("slide")
    /\ \E j \in Jitters : elapsed' = Sleep(FRAME_INTERVAL, j)
    /\ UNCHANGED <<unitVars, coverAsset, progLog, endedBy, audioLead, handlerVars,
                   pc, i, duration, clipDur, playing, segLog, overrun,
                   assetVars, sceneVars, recVars, outVars>>

\* lines 241 / 262, 275-280: the transition is over; the scene clip is paused
\* and the iteration's locals (audioBuffer, tDuration) go out of scope
TransitionExit ==
    /\ pc \in {"transClip", "transSynth"}
    /\ Reached(elapsed, duration)
    /\ playing' = playing \ {<<"scene", i>>}
    /\ i' = i + 1
    /\ pc' = "sceneInit"
    /\ overrun' = overrun + (elapsed - duration)
    /\ clipDur' = NaN
    /\ audioBuffer' = NoBuffer
    /\ endedBy' = EndedBy(pc)
    /\ UNCHANGED <<unitVars, coverAsset, progLog, audioLead, handlerVars,
                   elapsed, duration, source, segLog, assetVars, recVars,
                   outVars, drawVars>>

\* lines 288-305: one frame of the fade to black over the last asset
OutroDraw ==
    /\ pc = "outro"
    /\ ~Reached(elapsed, duration)
    /\ Draw("fade")
    /\ \E j \in Jitters : elapsed' = Sleep(FRAME_INTERVAL, j)
    /\ UNCHANGED <<unitVars, coverAsset, progLog, endedBy, audioLead, handlerVars,
                   pc, i, duration, clipDur, playing, segLog, overrun,
                   assetVars, sceneVars, recVars, outVars>>

\* lines 293, 307-309: the fade is over; black frame and a 500 ms timer
OutroExit ==
    /\ pc = "outro"
    /\ Reached(elapsed, duration)
    /\ Draw("black")
    /\ \E j \in Jitters : overrun' = overrun + (elapsed - duration) + j
    /\ pc' = "hold"
    /\ duration' = finalHold
    /\ endedBy' = EndedBy(pc)
    /\ UNCHANGED <<unitVars, coverAsset, progLog, audioLead, handlerVars,
                   i, elapsed, clipDur, playing, segLog, assetVars,
                   sceneVars, recVars, outVars>>

Finish_HandlerMissing ==
    /\ pc = "hold"
    /\ pc' = "stopping"
    /\ recorder' = "stopping"
    /\ audioCtx' = "closed"
    /\ onstop' = onstop
    /\ endedBy' = EndedBy(pc)
    /\ UNCHANGED <<unitVars, coverAsset, progLog, audioLead, handlerVars,
                   i, elapsed, duration, clipDur, playing, segLog, overrun,
                   assetVars, sceneVars, promise, chunks, blob, drawVars>>

\* lines 314-325: finally { recorder.stop(); audioCtx.close() }, then the
\* returned promise installs recorder.onstop
Finish ==
    /\ pc = "hold"
    /\ pc' = "stopping"
    /\ recorder' = "stopping"
    /\ audioCtx' = "closed"
    /\ onstop' = TRUE
    /\ endedBy' = EndedBy(pc)
    /\ UNCHANGED <<unitVars, coverAsset, progLog, audioLead, handlerVars,
                   i, elapsed, duration, clipDur, playing, segLog, overrun,
                   assetVars, sceneVars, promise, chunks, blob, drawVars>>

\* lines 56-58, 320-324: the task recorder.stop() queued: dataavailable, then stop
RecorderStopTask ==
    /\ recorder = "stopping"
    /\ recorder' = "inactive"
    /\ chunks' = chunks + 1
    /\ IF onstop
       THEN /\ blob' = "blob"
            /\ promise' = "resolved"
            /\ pc' = "complete"
       ELSE UNCHANGED <<blob, promise, pc>>
    /\ UNCHANGED <<unitVars, coverAsset, progLog, endedBy, audioLead, handlerVars,
                   i, elapsed, duration, clipDur, playing, segLog, overrun,
                   assetVars, sceneVars, audioCtx, onstop, drawVars>>

Next ==
    \/ Setup
    \/ LoadCover
    \/ PreloadScene
    \/ PreloadDone
    \/ IntroDraw
    \/ IntroExit
    \/ IntroPauseExit
    \/ SceneInit
    \/ SceneDraw
    \/ SceneExitToClip
    \/ SceneExitToSlide
    \/ SceneExitToOutro
    \/ ClipDraw
    \/ SlideDraw
    \/ TransitionExit
    \/ OutroDraw
    \/ OutroExit
    \/ Finish
    \/ RecorderStopTask

Spec == Init /\ [][Next]_vars

\* The event loop runs every timer and every queued task.
FairSpec == Spec /\ WF_vars(Next)

\* ------------------------------------------- the preload, handler by handler
\* LoadSpec follows the preload loop at the grain of loadVideo's callbacks:
\* every call owns a promise and three handlers that may fire in any order,
\* also long after the preload loop has moved on.
Events == {"loadeddata", "error", "timeout"}
NewCall == [promise |-> "pending", events |-> <<>>]
Fired(c) == { lv[c].events[k] : k \in 1..Len(lv[c].events) }

Resolve_LastWins(p, value) == value
\* resolve(value) settles a pending promise and does nothing to a settled one
Resolve(p, value) == IF p = "pending" THEN value ELSE p

\* one of the callbacks of call c runs and calls resolve(value)
Handle(c, e, value) ==
    /\ c \in DOMAIN lv
    /\ e \notin Fired(c)
    /\ lv' = [lv EXCEPT ![c] = [promise |-> Resolve(lv[c].promise, value),
                                events |-> Append(lv[c].events, e)]]
    /\ UNCHANGED <<unitVars, pc, i, elapsed, duration, clipDur, playing, segLog, overrun,
                   coverAsset, progLog, endedBy, audioLead, edits,
                   assetVars, sceneVars, recVars, outVars, drawVars>>

\* vid.onloadeddata = () => resolve(vid); no data arrives after a load error
OnLoadedData ==
    \E c \in DOMAIN lv : "error" \notin Fired(c) /\ Handle(c, "loadeddata", "vid")

\* vid.onerror = () => resolve(null)
OnError == \E c \in DOMAIN lv : Handle(c, "error", "null")

\* setTimeout(() => resolve(null), 5000)
OnLoadTimeout == \E c \in DOMAIN lv : Handle(c, "timeout", "null")

\* lines 99-105 with the calls made so far: the transition clip of scene i
LoadTransition(calls) ==
    IF story.transitionVideoUrl[i + 1]
    THEN /\ lv' = calls @@ (<<"transition", i>> :> NewCall)
         /\ pc' = "awaitTransition"
         /\ UNCHANGED <<transitionAssets, i>>
    ELSE /\ lv' = calls
         /\ transitionAssets' = Append(transitionAssets, "null")
         /\ i' = i + 1
         /\ pc' = "preload"

\* lines 82-97: an iteration of the preload loop up to its first loadVideo
PreloadBegin ==
    /\ pc = "preload"
    /\ ~PreloadFinished(i, story.n)
    /\ \E videoUrl \in VideoUrls(i), decoded \in BOOLEAN :
         IF videoUrl
         THEN /\ lv' = lv @@ (<<"scene", i>> :> NewCall)
              /\ pc' = "awaitVideo"
              /\ UNCHANGED <<visualAssets, transitionAssets, i>>
         ELSE /\ visualAssets' = Append(visualAssets, LoadImage(decoded))
              /\ LoadTransition(lv)
    /\ OnProgress(LoadProgress(i, story.n))
    /\ UNCHANGED <<unitVars, story, elapsed, duration, clipDur, playing, segLog, overrun,
                   coverAsset, endedBy, audioLead, edits,
                   sceneVars, recVars, outVars, drawVars>>

\* lines 88-93: the scene clip's promise has settled
ResumeSceneVideo ==
    /\ pc = "awaitVideo"
    /\ lv[<<"scene", i>>].promise # "pending"
    /\ \E decoded \in BOOLEAN :
         visualAssets' =
            Append(visualAssets,
                   IF lv[<<"scene", i>>].promise = "vid"
                   THEN "vid" ELSE LoadImage(decoded))
    /\ LoadTransition(lv)
    /\ UNCHANGED <<unitVars, story, elapsed, duration, clipDur, playing, segLog, overrun,
                   coverAsset, progLog, endedBy, audioLead, edits,
                   sceneVars, recVars, outVars, drawVars>>

\* lines 101-102: the transition clip's promise has settled
ResumeTransition ==
    /\ pc = "awaitTransition"
    /\ lv[<<"transition", i>>].promise # "pending"
    /\ transitionAssets' =
          Append(transitionAssets, lv[<<"transition", i>>].promise)
    /\ i' = i + 1
    /\ pc' = "preload"
    /\ UNCHANGED <<unitVars, story, visualAssets, elapsed, duration, clipDur, playing,
                   segLog, overrun, coverAsset, progLog, endedBy, audioLead,
                   handlerVars, sceneVars, recVars, outVars, drawVars>>

LoadNext ==
    \/ Setup
    \/ LoadCover
    \/ PreloadBegin
    \/ OnLoadedData
    \/ OnError
    \/ OnLoadTimeout
    \/ ResumeSceneVideo
    \/ ResumeTransition
    \/ PreloadDone

LoadSpec == Init /\ [][LoadNext]_vars

\* ------------------------------------- generation handlers during an export
\* The player's generation handlers write their result into the scene objects
\* of the very story the export was handed; a generation started before the
\* export may end at any moment of it.  At most MaxEdits of them end during
\* one export.
Exporting == pc \notin {"start", "setupFailed", "failed", "complete"}

GenerateTransitionDone_Reloads ==
    /\ Exporting
    /\ Cardinality(edits) < MaxEdits
    /\ \E k \in 0..(story.n - 2) :
         /\ ~story.transitionVideoUrl[k + 1]
         /\ story' = [story EXCEPT !.transitionVideoUrl[k + 1] = TRUE]
         /\ edits' = edits \cup {<<"transitionVideoUrl", k>>}
         /\ transitionAssets' =
              [m \in 1..Len(transitionAssets) |->
                  IF m = k + 1 THEN "vid" ELSE transitionAssets[m]]
    /\ UNCHANGED <<unitVars, pc, i, elapsed, duration, clipDur, playing, segLog, overrun,
                   coverAsset, progLog, endedBy, audioLead, lv, visualAssets,
                   sceneVars, recVars, outVars, drawVars>>

\* StoryPlayer.tsx 209, 258: currentScene.transitionVideoUrl = transitionUrl
GenerateTransitionDone ==
    /\ Exporting
    /\ Cardinality(edits) < MaxEdits
    /\ \E k \in 0..(story.n - 2) :
         /\ ~story.transitionVideoUrl[k + 1]
         /\ story' = [story EXCEPT !.transitionVideoUrl[k + 1] = TRUE]
         /\ edits' = edits \cup {<<"transitionVideoUrl", k>>}
         /\ transitionAssets' = transitionAssets
    /\ UNCHANGED <<unitVars, pc, i, elapsed, duration, clipDur, playing, segLog, overrun,
                   coverAsset, progLog, endedBy, audioLead, lv, visualAssets,
                   sceneVars, recVars, outVars, drawVars>>

\* StoryPlayer.tsx 164, 177: currentScene.videoUrl = videoUrl, for a scene
\* that had no clip when the handler started
GenerateVeoDone ==
    /\ Exporting
    /\ Cardinality(edits) < MaxEdits
    /\ \E k \in 0..(story.n - 1) :
         /\ <<"videoUrl", k>> \notin edits
         /\ ~(k < Len(visualAssets) /\ visualAssets[k + 1] = "vid")
         /\ edits' = edits \cup {<<"videoUrl", k>>}
    /\ UNCHANGED <<unitVars, pc, i, elapsed, duration, clipDur, playing, segLog, overrun,
                   coverAsset, progLog, endedBy, audioLead, lv, assetVars,
                   sceneVars, recVars, outVars, drawVars>>

EditNext ==
    \/ Next
    \/ GenerateTransitionDone
    \/ GenerateVeoDone

EditSpec == Init /\ [][EditNext]_vars

\* ----------------------------------------- the encoder format, probe to file
\* A MIME type as the pieces of its text: ";" is a piece of its own, and so
\* is "mp4" wherever the text holds it.
MimeText(f) ==
    CASE f = "mp4-avc1" -> <<"video/", "mp4", ";", " codecs=avc1,", "mp4", "a.40.2">>
      [] f = "mp4"      -> <<"video/", "mp4">>
      [] f = "webm-vp9" -> <<"video/webm", ";", " codecs=vp9">>
      [] OTHER          -> <<"video/webm">>

\* text.split(sep)[0]: the text before the first sep, all of it without one
SplitHead(text, sep) ==
    LET hits == { k \in DOMAIN text : text[k] = sep }
    IN  IF hits = {} THEN text
        ELSE SubSeq(text, 1, (CHOOSE k \in hits : \A m \in hits : k <= m) - 1)

\* text.includes(piece)
Includes(text, piece) == \E k \in DOMAIN text : text[k] = piece

BlobType_Whole(mime) == mime
\* new Blob(chunks, { type: mimeType.split(';')[0] })
BlobType(mime) == SplitHead(mime, ";")

\* const ext = blob.type.includes('mp4') ? 'mp4' : 'webm'
Extension(type) == IF Includes(type, "mp4") THEN "mp4" ELSE "webm"

\* One export on a runtime that supports the formats in enc.supported, started
\* by handleExportVideo or by handlePreviewFullVideo.
EncInit ==
    /\ ExportInit
    /\ story = [cover |-> FALSE, n |-> 1, transitionVideoUrl |-> <<FALSE>>]
    /\ enc \in { [EncIdle EXCEPT !.pc = "select", !.caller = c, !.supported = sup] :
                   c \in {"export", "preview"}, sup \in SUBSET Formats }
    /\ cv = CvIdle
    /\ sub = SubIdle
    /\ player = PlayerIdle
    /\ AppsIdle

\* lines 39-47: the three isTypeSupported probes
SelectFormat ==
    /\ enc.pc = "select"
    /\ enc' = [enc EXCEPT !.pc = "construct",
                          !.mimeType = MimeText(SelectMimeType(enc.supported))]
    /\ UNCHANGED <<exportVars, cv, sub, player, appVars>>

\* lines 50-53: new MediaRecorder(stream, { mimeType, ... }) throws
\* NotSupportedError for a type the runtime cannot record
ConstructRecorder ==
    /\ enc.pc = "construct"
    /\ enc' = [enc EXCEPT !.pc =
                 IF \E f \in enc.supported : MimeText(f) = enc.mimeType
                 THEN "recording" ELSE "threw"]
    /\ UNCHANGED <<exportVars, cv, sub, player, appVars>>

\* lines 319-324: recorder.onstop builds the blob
ResolveBlob ==
    /\ enc.pc = "recording"
    /\ enc' = [enc EXCEPT !.pc = "resolved", !.blobType = BlobType(enc.mimeType)]
    /\ UNCHANGED <<exportVars, cv, sub, player, appVars>>

\* StoryPlayer.tsx lines 353-363: handleExportVideo names and downloads the file
DownloadFile ==
    /\ enc.pc = "resolved"
    /\ enc.caller = "export"
    /\ enc' = [enc EXCEPT !.pc = "downloaded", !.ext = Extension(enc.blobType)]
    /\ UNCHANGED <<exportVars, cv, sub, player, appVars>>

\* StoryPlayer.tsx lines 292-298: handlePreviewFullVideo keeps an object URL
PreviewBlob ==
    /\ enc.pc = "resolved"
    /\ enc.caller = "preview"
    /\ enc' = [enc EXCEPT !.pc = "previewed"]
    /\ UNCHANGED <<exportVars, cv, sub, player, appVars>>

EncNext ==
    \/ SelectFormat
    \/ ConstructRecorder
    \/ ResolveBlob
    \/ DownloadFile
    \/ PreviewBlob

EncSpec == EncInit /\ [][EncNext]_vars

\* ------------------------------------------------- the frames on the canvas
\* A segment is sampled at the progress fractions e/Samples, e in
\* 0..Samples-1; scales and opacities are counted in units of
\* 1/(1000 * Samples), so that scale = base + var * progress is exact.
Unit == 1000 * Samples
\* '#000', and rgba(0,0,0,a) as a in units
Black == Unit
\* video.currentTime of a playing clip when a frame samples it
ClipPositions == 0..MaxClipPos
Min(a, b) == IF a <= b THEN a ELSE b

\* One drawing call as it lands on the canvas.  what is <<kind, index, clip
\* position>> for an asset, <<area, 0, 0>> for a rectangle.
Layer(op, what, scale, alpha, dx) ==
    [op |-> op, what |-> what, scale |-> scale, alpha |-> alpha, dx |-> dx]

\* A call that leaves nothing of the earlier canvas content: a clear, an
\* asset in cover fit at scale >= 1 and not shifted, a full opaque fill.
Opaque(l) ==
    \/ l.op = "clear"
    \/ l.op = "asset" /\ l.dx = 0
    \/ l.op = "fill" /\ l.what[1] = "all" /\ l.alpha = Unit /\ l.dx = 0

Paint(c, l) == [c EXCEPT !.px = IF Opaque(l) THEN <<l>> ELSE Append(c.px, l)]

\* ctx.clearRect(0, 0, width, height)
ClearRect_Skipped(c) == c
ClearRect(c) == Paint(c, Layer("clear", <<"all", 0, 0>>, 0, 0, 0))

\* drawAsset: returns without drawing when the asset has no width or height
DrawAsset(c, asset, scale, dx) ==
    IF asset[1] = "broken" THEN c
    ELSE Paint(c, Layer("asset", asset, scale, 0, dx))

\* ctx.fillStyle = ...; ctx.fillRect(...) fills with the style in force
SetFillStyle(c, alpha) == [c EXCEPT !.fillStyle = alpha]
FillRect(c, area, dx) == Paint(c, Layer("fill", <<area, 0, 0>>, 0, c.fillStyle, dx))
\* ctx.save() ... ctx.restore(): the style in force before the save is back
Restore(c, saved) == [c EXCEPT !.fillStyle = saved.fillStyle]

\* drawSubtitles, lines 459-481: panel and text under globalAlpha = opacity,
\* drawn between save and restore
DrawSubtitles(c, k, opacity) ==
    Restore(Paint(c, Layer("text", <<"text", k, 0>>, 0, opacity, 0)), c)

\* lines 204-210: currentScale without the breathing term
KenBurnsScale_AlwaysIn(idx, e) == 1100 * Samples + 150 * e
KenBurnsScale(idx, e) ==
    IF idx % 2 = 0 THEN 1100 * Samples + 150 * e
    ELSE (1100 + 150) * Samples - 150 * e
\* line 128: 1.0 + (progress * 0.05)
IntroScale(e) == 1000 * Samples + 50 * e
\* line 298: 1.25 + (progress * 0.05)
OutroScale(e) == 1250 * Samples + 50 * e
\* line 217: Math.min(elapsed * 2, 1), elapsed = (e / Samples) * dur
TextOpacity(e, dur) == Min((2000 * e * dur) \div FPS, Unit)
\* lines 132-134: fade in over the first 0.5 s, fade out over the last 0.5 s
IntroOpacity(e, dur) ==
    LET fadeIn == IF 2 * e * dur < Samples * FPS
                  THEN (2000 * e * dur) \div FPS ELSE Unit
    IN  IF 2 * e * dur > Samples * (2 * dur - FPS)
        THEN (2000 * (Samples - e) * dur) \div FPS ELSE fadeIn
\* lines 268-270: easeInOutCubic(e / Samples), in units of 1/Samples^3
Ease(e) ==
    IF 2 * e < Samples THEN 4 * e * e * e
    ELSE Samples * Samples * Samples
           - 4 * (Samples - e) * (Samples - e) * (Samples - e)

\* lines 123-140: one frame of the cover intro
IntroFrame(c, e) ==
    LET drawn == DrawAsset(ClearRect(c), <<c.cover, 0 - 1, 0>>, IntroScale(e), 0)
        opacity == IntroOpacity(e, introDuration)
    IN  IF opacity < Unit
        THEN FillRect(SetFillStyle(drawn, Unit - opacity), "all", 0)
        ELSE drawn

\* lines 195-218: one frame of scene k; a clip shows its own playback position
SceneFrame(c, k, e, pos) ==
    LET asset == c.assets[k + 1]
        drawn == IF asset = "vid"
                 THEN DrawAsset(ClearRect(c), <<asset, k, pos>>, Unit, 0)
                 ELSE DrawAsset(ClearRect(c), <<asset, k, 0>>, KenBurnsScale(k, e), 0)
    IN  DrawSubtitles(drawn, k, TextOpacity(e, silentDuration))

\* line 243: one frame of the transition clip, over whatever the canvas holds
ClipFrame(c, k, pos) == DrawAsset(c, <<"tvid", k, pos>>, Unit, 0)

\* drawCinematicTransition, lines 391-425, with progress = ease; offsets in
\* units of width/Samples^3
DrawCinematicTransition(c, k, e, posA, posB) ==
    LET full == Samples * Samples * Samples
        assetA == c.assets[k + 1]
        assetB == c.assets[k + 2]
        cleared == ClearRect(c)
        drawnA == DrawAsset(cleared,
                            <<assetA, k, IF assetA = "vid" THEN posA ELSE 0>>,
                            IF assetA = "vid" THEN Unit ELSE 1250 * Samples,
                            0 - Ease(e))
        shaded == Restore(FillRect(SetFillStyle(drawnA, (500 * Samples * Ease(e)) \div full),
                                   "all", 0 - Ease(e)),
                          cleared)
        drawnB == DrawAsset(shaded,
                            <<assetB, k + 1, IF assetB = "vid" THEN posB ELSE 0>>,
                            IF assetB = "vid" THEN Unit ELSE 1100 * Samples,
                            full - Ease(e))
    IN  Restore(FillRect(drawnB, "edge", full - Ease(e)), shaded)

\* lines 295-302: one frame of the outro, over whatever the canvas holds
OutroFrame(c, e, pos) ==
    LET last == Len(c.assets)
        asset == c.assets[last]
        drawn == IF asset = "vid"
                 THEN DrawAsset(c, <<asset, last - 1, pos>>, Unit, 0)
                 ELSE DrawAsset(c, <<asset, last - 1, 0>>, OutroScale(e), 0)
    IN  FillRect(SetFillStyle(drawn, 1000 * e), "all", 0)

\* ctx.fillStyle = '#000'; ctx.fillRect(0, 0, width, height)
BlackFrame(c) == FillRect(SetFillStyle(c, Black), "all", 0)

\* The asset as the frames see it: a clip, an image, or an image element
\* that resolved from onerror and has no size.
AssetOf(videoUrl, loaded, decoded) ==
    IF LoadVisual(videoUrl, loaded, decoded) = "vid" THEN "vid"
    ELSE IF decoded THEN "img" ELSE "broken"
AssetKinds == { AssetOf(u, l, d) : u \in BOOLEAN, l \in BOOLEAN, d \in BOOLEAN }

\* The clock reads of the frames of one segment: the first frame is at
\* elapsed 0, later ones at later samples.
LaterSamples(e) == IF e < 0 THEN {0} ELSE (e + 1)..(Samples - 1)

FrameInit ==
    /\ ExportInit
    /\ story = [cover |-> FALSE, n |-> 1, transitionVideoUrl |-> <<FALSE>>]
    /\ enc = EncIdle
    /\ sub = SubIdle
    /\ player = PlayerIdle
    /\ AppsIdle
    /\ \E n \in 1..MaxScenes :
         cv \in { [CvIdle EXCEPT !.part = "begin", !.cover = c, !.assets = a, !.trans = t] :
                    c \in {"null", "img", "broken"},
                    a \in [1..n -> AssetKinds],
                    t \in { f \in [1..n -> {"null", "vid"}] : f[n] = "null" } }

\* lines 18-26, 112-116: the canvas is filled black; the first segment starts
BeginFrames ==
    /\ cv.part = "begin"
    /\ cv' = [BlackFrame(cv) EXCEPT
                !.part = IF cv.cover # "null" THEN "intro" ELSE "scene"]
    /\ UNCHANGED <<exportVars, enc, sub, player, appVars>>

IntroFrameDrawn ==
    /\ cv.part = "intro"
    /\ \E e \in LaterSamples(cv.e) :
         cv' = [IntroFrame(cv, e) EXCEPT !.e = e]
    /\ UNCHANGED <<exportVars, enc, sub, player, appVars>>

\* lines 143-146: black frame after the intro
IntroFrameEnd ==
    /\ cv.part = "intro"
    /\ cv.e >= 0
    /\ cv' = [BlackFrame(cv) EXCEPT !.part = "scene", !.e = 0 - 1]
    /\ UNCHANGED <<exportVars, enc, sub, player, appVars>>

SceneFrameDrawn ==
    /\ cv.part = "scene"
    /\ \E e \in LaterSamples(cv.e), pos \in ClipPositions :
         cv' = [SceneFrame(cv, cv.k, e, pos) EXCEPT !.e = e]
    /\ UNCHANGED <<exportVars, enc, sub, player, appVars>>

\* lines 193, 229-232, 282-286: the scene is over; nothing is drawn
SceneFrameEnd ==
    /\ cv.part = "scene"
    /\ cv.e >= 0
    /\ cv' = [cv EXCEPT !.e = 0 - 1,
                        !.part = IF cv.k + 1 < Len(cv.assets)
                                 THEN TransitionMode(cv.trans[cv.k + 1])
                                 ELSE "outro"]
    /\ UNCHANGED <<exportVars, enc, sub, player, appVars>>

\* the first frame of the clip comes after the awaited play(), at any sample
ClipFrameDrawn ==
    /\ cv.part = "transClip"
    /\ \E e \in (cv.e + 1)..(Samples - 1), pos \in ClipPositions :
         cv' = [ClipFrame(cv, cv.k, pos) EXCEPT !.e = e]
    /\ UNCHANGED <<exportVars, enc, sub, player, appVars>>

SlideFrameDrawn ==
    /\ cv.part = "transSynth"
    /\ \E e \in LaterSamples(cv.e), posA \in ClipPositions, posB \in ClipPositions :
         cv' = [DrawCinematicTransition(cv, cv.k, e, posA, posB) EXCEPT !.e = e]
    /\ UNCHANGED <<exportVars, enc, sub, player, appVars>>

\* lines 242, 266, 150: the transition is over; scene k + 1 starts
TransitionFrameEnd ==
    /\ cv.part \in {"transClip", "transSynth"}
    /\ cv.e >= 0
    /\ cv' = [cv EXCEPT !.part = "scene", !.k = cv.k + 1, !.e = 0 - 1]
    /\ UNCHANGED <<exportVars, enc, sub, player, appVars>>

OutroFrameDrawn ==
    /\ cv.part = "outro"
    /\ \E e \in LaterSamples(cv.e), pos \in ClipPositions :
         cv' = [OutroFrame(cv, e, pos) EXCEPT !.e = e]
    /\ UNCHANGED <<exportVars, enc, sub, player, appVars>>

\* lines 307-308: black frame after the fade
OutroFrameEnd ==
    /\ cv.part = "outro"
    /\ cv.e >= 0
    /\ cv' = [BlackFrame(cv) EXCEPT !.part = "done", !.e = 0 - 1]
    /\ UNCHANGED <<exportVars, enc, sub, player, appVars>>

FrameNext ==
    \/ BeginFrames
    \/ IntroFrameDrawn
    \/ IntroFrameEnd
    \/ SceneFrameDrawn
    \/ SceneFrameEnd
    \/ ClipFrameDrawn
    \/ SlideFrameDrawn
    \/ TransitionFrameEnd
    \/ OutroFrameDrawn
    \/ OutroFrameEnd

FrameSpec == FrameInit /\ [][FrameNext]_vars

\* ------------------------------------------------- drawSubtitles, line by line
\* Lengths are in pixels, heights in tenths of a pixel (lineHeight is
\* fontSize * 1.4).  A text is a sequence of glyphs "a" and "b"; a font gives
\* each glyph its measured width.
Glyphs == {"a", "b"}
GlyphWidths == {40, 600, 1200}
Fonts == { f \in [Glyphs -> GlyphWidths] : f["a"] < f["b"] }
CanvasSizes == { <<1280, 720>>, <<720, 1280>> }

IsVertical(h, w) == h > w
FontSize(h, w) == IF IsVertical(h, w) THEN 40 ELSE 36
Padding == 24
BottomMargin(h, w) == IF IsVertical(h, w) THEN 150 ELSE 60
MaxWidth(w) == w - (Padding * 4)
LineHeight(h, w) == FontSize(h, w) * 14

\* ctx.measureText(line).width: the glyph widths added up; the text
\* "undefined" (words[0] of an empty text) measures as nine narrow glyphs
GlyphWidth(font, g) == IF g = "undefined" THEN 9 * font["a"] ELSE font[g]
MeasureText(font, line) ==
    LET sum[k \in 0..Len(line)] ==
            IF k = 0 THEN 0 ELSE sum[k - 1] + GlyphWidth(font, line[k])
    IN  sum[Len(line)]

\* line 446: if (width < maxWidth)
Fits_Always(width, maxWidth) == TRUE
Fits(width, maxWidth) == width < maxWidth

\* lines 455-462: bgY, the top of the panel, in tenths of a pixel
BgHeight(n, h, w) == n * LineHeight(h, w) + (Padding * 2) * 10
BgY(n, h, w) == h * 10 - BgHeight(n, h, w) - BottomMargin(h, w) * 10

SubInit ==
    /\ ExportInit
    /\ story = [cover |-> FALSE, n |-> 1, transitionVideoUrl |-> <<FALSE>>]
    /\ enc = EncIdle
    /\ cv = CvIdle
    /\ player = PlayerIdle
    /\ AppsIdle
    /\ sub \in { [SubIdle EXCEPT !.pc = "split", !.w = s[1], !.h = s[2], !.font = f] :
                   s \in CanvasSizes, f \in Fonts }

\* lines 439-441: words = text.split(''); currentLine = words[0]; the text is
\* empty or begins with some glyph
SplitText ==
    /\ sub.pc = "split"
    /\ \/ sub' = [sub EXCEPT !.pc = "wrap", !.currentLine = <<"undefined">>]
       \/ \E g \in Glyphs :
            sub' = [sub EXCEPT !.pc = "wrap", !.text = <<g>>, !.currentLine = <<g>>]
    /\ UNCHANGED <<exportVars, enc, cv, player, appVars>>

\* lines 443-452: the next glyph of the text joins the line or starts a new one
WrapWord ==
    /\ sub.pc = "wrap"
    /\ sub.text # <<>>
    /\ Len(sub.text) < MaxChars
    /\ \E word \in Glyphs :
         LET width == MeasureText(sub.font, Append(sub.currentLine, word))
         IN  IF Fits(width, MaxWidth(sub.w))
             THEN sub' = [sub EXCEPT !.text = Append(@, word),
                                     !.currentLine = Append(@, word)]
             ELSE sub' = [sub EXCEPT !.text = Append(@, word),
                                     !.lines = Append(@, sub.currentLine),
                                     !.currentLine = <<word>>]
    /\ UNCHANGED <<exportVars, enc, cv, player, appVars>>

\* line 453: the text is at its end; the last line is pushed
PushLastLine ==
    /\ sub.pc = "wrap"
    /\ sub' = [sub EXCEPT !.pc = "drawn", !.lines = Append(@, sub.currentLine)]
    /\ UNCHANGED <<exportVars, enc, cv, player, appVars>>

SubNext ==
    \/ SplitText
    \/ WrapWord
    \/ PushLastLine

SubSpec == SubInit /\ [][SubNext]_vars

\* ------------------------------------------- StoryPlayer: handlers and renders
\* A handler reads the state of the render it was created in (screen) and
\* sets state; the next render puts the state set on screen.
PlayerInit ==
    /\ ExportInit
    /\ ~story.cover
    /\ \A k \in 1..story.n : ~story.transitionVideoUrl[k]
    /\ UnitsIdle

\* stopAudio, lines 90-99
StopAudio(p) ==
    IF p.sourceNodeRef # NoNode
    THEN [p EXCEPT !.sounding = { s \in @ : s.node # p.sourceNodeRef },
                   !.sourceNodeRef = NoNode]
    ELSE p

\* lines 285-291 and 345-351: if (isExporting) return; setIsExporting(true);
\* ... generateStoryVideo(...)
StartExport(p, caller) ==
    IF p.screen.isExporting THEN p
    ELSE [p EXCEPT !.state.isExporting = TRUE, !.exports = Append(@, caller)]

\* a render; lines 83-88: the effect of a changed currentIndex
PlayerRendered(p) ==
    IF p.state.currentIndex # p.screen.currentIndex
    THEN LET stopped == StopAudio(p)
             shown == [p.state EXCEPT !.isPlaying = FALSE]
         IN  [stopped EXCEPT !.state = shown, !.screen = shown, !.pressed = FALSE]
    ELSE [p EXCEPT !.screen = p.state]

\* the next render
Render ==
    /\ player.screen # player.state
    /\ player' = PlayerRendered(player)
    /\ UNCHANGED <<exportVars, enc, cv, sub, appVars>>

\* lines 420-422: the menu button, disabled while exporting
ToggleMagicMenu ==
    /\ ~player.screen.isExporting
    /\ player' = [player EXCEPT !.state.showMagicMenu = ~player.screen.showMagicMenu]
    /\ UNCHANGED <<exportVars, enc, cv, sub, appVars>>

\* lines 462-464
ToggleShareMenu ==
    /\ ~player.screen.isExporting
    /\ player' = [player EXCEPT !.state.showShareMenu = ~player.screen.showShareMenu]
    /\ UNCHANGED <<exportVars, enc, cv, sub, appVars>>

\* lines 283-307, up to the await; the item is in the magic menu (line 449)
HandlePreviewFullVideo ==
    /\ player.screen.showMagicMenu
    /\ Len(player.exports) < MaxCalls
    /\ player' = StartExport([player EXCEPT !.state.showMagicMenu = FALSE], "preview")
    /\ UNCHANGED <<exportVars, enc, cv, sub, appVars>>

\* lines 309-317; the items are in the share menu (lines 481-496)
HandleOpenExport ==
    /\ player.screen.showShareMenu
    /\ player' = [StopAudio(player) EXCEPT !.state.showShareMenu = FALSE,
                                           !.state.showCoverModal = TRUE]
    /\ UNCHANGED <<exportVars, enc, cv, sub, appVars>>

\* lines 339-351, up to the await; the button is in the cover modal (line 590)
HandleConfirmExport ==
    /\ player.screen.showCoverModal
    /\ Len(player.exports) < MaxCalls
    /\ player' = StartExport([player EXCEPT !.state.showCoverModal = FALSE], "export")
    /\ UNCHANGED <<exportVars, enc, cv, sub, appVars>>

\* lines 298-306 and 358-378: after generateStoryVideo resolved (the blob is
\* shown or downloaded) or rejected (alert): finally { setIsExporting(false) }
Settle_OnSuccessOnly(p, k, outcome) ==
    [p EXCEPT !.state.isExporting = IF outcome = "resolved" THEN FALSE ELSE @,
              !.exports = SubSeq(@, 1, k - 1) \o SubSeq(@, k + 1, Len(@)),
              !.settled = outcome]
Settle(p, k, outcome) ==
    [p EXCEPT !.state.isExporting = FALSE,
              !.exports = SubSeq(@, 1, k - 1) \o SubSeq(@, k + 1, Len(@)),
              !.settled = outcome]

\* a generateStoryVideo call resolved or rejected
ExportSettled ==
    /\ \E k \in DOMAIN player.exports, outcome \in {"resolved", "rejected"} :
         player' = Settle(player, k, outcome)
    /\ UNCHANGED <<exportVars, enc, cv, sub, appVars>>

\* lines 141-149 and 101-109: togglePlay; playAudio runs up to its first
\* await, which is resume() when the context is suspended and the decode
\* otherwise
TogglePlay ==
    /\ IF player.screen.isPlaying
       THEN player' = [StopAudio(player) EXCEPT !.state.isPlaying = FALSE]
       ELSE /\ player.nodes < MaxNodes
            /\ \E suspended \in BOOLEAN :
              LET call == [pc |-> IF suspended THEN "resuming" ELSE "decoding",
                           scene |-> player.screen.currentIndex,
                           node |-> player.nodes + 1]
              IN  IF suspended
                  THEN player' = [player EXCEPT
                         !.pressed = TRUE, !.nodes = @ + 1,
                         !.plays = @ \cup {call}]
                  ELSE player' = [StopAudio(player) EXCEPT
                         !.pressed = TRUE, !.nodes = @ + 1,
                         !.plays = @ \cup {call}]
    /\ UNCHANGED <<exportVars, enc, cv, sub, appVars>>

\* lines 106-114: resume() settled; stopAudio(); the decode is awaited
PlayAudioResumed ==
    /\ \E c \in player.plays :
         /\ c.pc = "resuming"
         /\ player' = [StopAudio(player) EXCEPT
                         !.plays = (@ \ {c}) \cup {[c EXCEPT !.pc = "decoding"]}]
    /\ UNCHANGED <<exportVars, enc, cv, sub, appVars>>

\* lines 114-138: the decode settled; the source is started, or the catch runs
PlayAudioDecoded ==
    /\ \E c \in player.plays, ok \in BOOLEAN :
         /\ c.pc = "decoding"
         /\ player' = IF ok
                      THEN [player EXCEPT !.plays = @ \ {c},
                                          !.sourceNodeRef = c.node,
                                          !.sounding = @ \cup {[node |-> c.node,
                                                                scene |-> c.scene]},
                                          !.state.isPlaying = TRUE]
                      ELSE [player EXCEPT !.plays = @ \ {c},
                                          !.state.isPlaying = FALSE]
    /\ UNCHANGED <<exportVars, enc, cv, sub, appVars>>

\* line 123: source.onended of a source that played to its end
SourceEnded ==
    /\ \E s \in player.sounding :
         player' = [player EXCEPT !.sounding = @ \ {s}, !.state.isPlaying = FALSE]
    /\ UNCHANGED <<exportVars, enc, cv, sub, appVars>>

\* line 152: if (currentIndex < story.scenes.length - 1)
CanNext(idx, n) == idx < n - 1

\* line 153: prev => prev + 1
NextIndex_Skip(prev) == prev + 2
NextIndex(prev) == prev + 1

\* line 159: prev => prev - 1
PrevIndex(prev) == prev - 1

\* line 158: if (currentIndex > 0)
CanPrev(idx) == idx > 0

\* lines 151-155, from the button of lines 884-886, disabled on the last
\* scene; the index a click sets is rendered before the next event, so that
\* the handler of the next click reads it
HandleNext ==
    /\ player.state.currentIndex < MaxScenes
    /\ player.screen.currentIndex # story.n - 1
    /\ CanNext(player.screen.currentIndex, story.n)
    /\ player' = PlayerRendered([player EXCEPT !.state.currentIndex = NextIndex(@)])
    /\ UNCHANGED <<exportVars, enc, cv, sub, appVars>>

\* lines 157-161, from the button of lines 874-876, disabled on scene 0
HandlePrev ==
    /\ player.screen.currentIndex # 0
    /\ CanPrev(player.screen.currentIndex)
    /\ player' = PlayerRendered([player EXCEPT !.state.currentIndex = PrevIndex(@)])
    /\ UNCHANGED <<exportVars, enc, cv, sub, appVars>>

\* the menus and the handlers that start an export
PlayerExportNext ==
    \/ Render
    \/ ToggleMagicMenu
    \/ ToggleShareMenu
    \/ HandlePreviewFullVideo
    \/ HandleOpenExport
    \/ HandleConfirmExport
    \/ ExportSettled

PlayerExportSpec == PlayerInit /\ [][PlayerExportNext]_vars

\* the handlers that start, stop or outlive the narration of a scene
PlayerAudioNext ==
    \/ Render
    \/ TogglePlay
    \/ PlayAudioResumed
    \/ PlayAudioDecoded
    \/ SourceEnded
    \/ HandleNext
    \/ HandlePrev
    \/ ToggleShareMenu
    \/ HandleOpenExport

PlayerAudioSpec == PlayerInit /\ [][PlayerAudioNext]_vars

\* ------------------------------------------------ App: the saved stories
\* A story object as far as followed: whether its scenes carry audioData (an
\* ArrayBuffer) and a videoUrl (a blob URL).
StoryObjects == [audioData : BOOLEAN, videoUrl : BOOLEAN]

\* JSON.stringify of a story object (lines 85, 95): a key whose value is
\* undefined is left out, an ArrayBuffer is written as {}, a string as it is
Stringify(id, obj) ==
    [id |-> id,
     audioData |-> IF obj.audioData THEN "{}" ELSE "absent",
     videoUrl |-> IF obj.videoUrl THEN "blob:" ELSE "absent"]

\* lines 77-84: the copy with audioData and videoUrl set to undefined
StripScenes(obj) == [obj EXCEPT !.audioData = FALSE, !.videoUrl = FALSE]

\* [story, ...saved].slice(0, 2) (line 74)
Slice2(s) == SubSeq(s, 1, IF Len(s) < 2 THEN Len(s) ELSE 2)

\* saved.filter(s => s.id !== id) (line 93)
FilterOut(s, id) == SelectSeq(s, LAMBDA x : x # id)

AppInit ==
    /\ ExportInit
    /\ story = [cover |-> FALSE, n |-> 1, transitionVideoUrl |-> <<FALSE>>]
    /\ enc = EncIdle
    /\ cv = CvIdle
    /\ sub = SubIdle
    /\ player = PlayerIdle
    /\ topics = TopicsIdle
    /\ batch = BatchIdle
    /\ veo = VeoIdle
    /\ app = [AppIdle EXCEPT !.pc = "mounted"]

\* a render of App: the handlers on screen are those of the state set so far
Rendered(a) == [a EXCEPT !.screen = a.state]

\* the render that follows a state set by a continuation of handleGenerate;
\* the state set by a click handler is rendered before the next event
AppRender ==
    /\ app.pc = "mounted"
    /\ app.screen # app.state
    /\ app' = [app EXCEPT !.screen = app.state]
    /\ UNCHANGED <<exportVars, enc, cv, sub, player, topics, batch, veo>>

\* lines 98-105: handleGenerate up to its first await; the button shows the
\* loading state while isLoading (line 396)
HandleGenerate ==
    /\ app.pc = "mounted"
    /\ app.screen.currentStory = 0
    /\ ~app.screen.isLoading
    /\ ~app.gen.active
    /\ Len(app.heap) < MaxStories
    /\ app' = Rendered([app EXCEPT
                  !.state.isLoading = TRUE,
                  !.gen = [active |-> TRUE, saved |-> app.screen.savedStories]])
    /\ UNCHANGED <<exportVars, enc, cv, sub, player, topics, batch, veo>>

\* lines 73-89, called at line 172 with the savedStories of the render that
\* handleGenerate was started from; full: setItem throws
SaveStoryToStorage(a, id, full) ==
    LET newSaved == Slice2(<<id>> \o a.gen.saved)
        storiesToSave == [k \in DOMAIN newSaved |->
                            Stringify(newSaved[k], StripScenes(a.heap[newSaved[k]]))]
    IN  [a EXCEPT !.state.savedStories = newSaved,
                  !.storage = IF full THEN @ ELSE storiesToSave]

\* lines 105-173: the generation went through; the voice-over of a scene may
\* have failed (lines 134-139)
GenerateDone ==
    /\ app.gen.active
    /\ \E audio \in BOOLEAN, full \in BOOLEAN :
         LET id == Len(app.heap) + 1
             made == [app EXCEPT !.heap = Append(@, [audioData |-> audio,
                                                     videoUrl |-> FALSE])]
             saved == SaveStoryToStorage(made, id, full)
         IN  app' = [saved EXCEPT !.state.currentStory = id,
                                  !.state.isLoading = FALSE,
                                  !.gen = [active |-> FALSE, saved |-> <<>>]]
    /\ UNCHANGED <<exportVars, enc, cv, sub, player, topics, batch, veo>>

\* lines 175-179: generateStoryStructure rejected
GenerateFailed ==
    /\ app.gen.active
    /\ app' = [app EXCEPT !.state.isLoading = FALSE,
                          !.gen = [active |-> FALSE, saved |-> <<>>]]
    /\ UNCHANGED <<exportVars, enc, cv, sub, player, topics, batch, veo>>

\* lines 91-96, from the delete button of a story in the list on screen
\* (line 495)
HandleDeleteStory ==
    /\ app.pc = "mounted"
    /\ app.screen.currentStory = 0
    /\ \E k \in DOMAIN app.screen.savedStories :
         LET id == app.screen.savedStories[k]
             newSaved == FilterOut(app.screen.savedStories, id)
         IN  app' = Rendered([app EXCEPT
                       !.state.savedStories = newSaved,
                       !.storage = [m \in DOMAIN newSaved |->
                                      Stringify(newSaved[m], app.heap[newSaved[m]])],
                       !.deleted = @ \cup {id}])
    /\ UNCHANGED <<exportVars, enc, cv, sub, player, topics, batch, veo>>

\* lines 216-218, from a story in the list on screen (line 476)
PlaySavedStory ==
    /\ app.pc = "mounted"
    /\ app.screen.currentStory = 0
    /\ \E k \in DOMAIN app.screen.savedStories :
         app' = Rendered([app EXCEPT !.state.currentStory = app.screen.savedStories[k]])
    /\ UNCHANGED <<exportVars, enc, cv, sub, player, topics, batch, veo>>

\* line 226: onBack of the player
OnBack ==
    /\ app.screen.currentStory # 0
    /\ app' = Rendered([app EXCEPT !.state.currentStory = 0])
    /\ UNCHANGED <<exportVars, enc, cv, sub, player, topics, batch, veo>>

\* StoryPlayer.tsx lines 163-177: handleGenerateVeo of the story in the
\* player; generateVeoScene returned a URL, which is written into the scene
HandleGenerateVeo ==
    /\ app.screen.currentStory # 0
    /\ ~app.heap[app.screen.currentStory].videoUrl
    /\ app' = [app EXCEPT !.heap[app.screen.currentStory].videoUrl = TRUE]
    /\ UNCHANGED <<exportVars, enc, cv, sub, player, topics, batch, veo>>

AppNext ==
    \/ AppRender
    \/ HandleGenerate
    \/ GenerateDone
    \/ GenerateFailed
    \/ HandleDeleteStory
    \/ PlaySavedStory
    \/ OnBack
    \/ HandleGenerateVeo

AppSpec == AppInit /\ [][AppNext]_vars

\* ------------------------------------ handleBatchGenerateTransitions, one run
\* StoryPlayer.tsx line 268: for (let s = 35; s > 0; s--)
Cooldown == 35

\* line 231
TotalTransitions(b) == Len(b.urls) - 1

\* lines 247-252: the images of scenes idx, idx+1, idx+2 that exist (0-based)
ImageCount(b, idx) ==
    Cardinality({ k \in {idx + 1, idx + 2, idx + 3} : k <= Len(b.images) /\ b.images[k] })

\* line 267: if (i < totalTransitions - 1)
CoolingDue_Never(idx, total) == FALSE
CoolingDue(idx, total) == idx < total - 1

\* lines 234-256 and 275: the loop from index b.i up to its next await, which
\* is the generateVeoSequence call of the first scene that has no clip and
\* enough images, or up to its end
RECURSIVE RunLoop(_)
RunLoop(b) ==
    IF b.i >= TotalTransitions(b)
    THEN [b EXCEPT !.pc = "done", !.isBatchGenerating = FALSE]
    ELSE IF b.urls[b.i + 1]
    THEN RunLoop([b EXCEPT !.i = @ + 1, !.successCount = @ + 1])
    ELSE IF ImageCount(b, b.i) < 2
    THEN RunLoop([b EXCEPT !.i = @ + 1])
    ELSE [b EXCEPT !.pc = "request",
                   !.waited = 0,
                   !.requests = Append(@, [scene |-> b.i, waited |-> b.waited,
                                           had |-> b.urls[b.i + 1]])]

\* lines 265-273: after the request of scene i
AfterRequest(b) ==
    IF CoolingDue(b.i, TotalTransitions(b))
    THEN [b EXCEPT !.pc = "cooling", !.s = Cooldown]
    ELSE RunLoop([b EXCEPT !.i = @ + 1])

BatchInit ==
    /\ ExportInit
    /\ story = [cover |-> FALSE, n |-> 1, transitionVideoUrl |-> <<FALSE>>]
    /\ enc = EncIdle
    /\ cv = CvIdle
    /\ sub = SubIdle
    /\ player = PlayerIdle
    /\ app = AppIdle
    /\ topics = TopicsIdle
    /\ veo = VeoIdle
    /\ \E n \in 1..MaxBatchScenes :
         batch \in { [BatchIdle EXCEPT !.urls = u, !.images = im] :
                       u \in [1..n -> BOOLEAN], im \in [1..n -> BOOLEAN] }

\* lines 222-226: the handler up to await checkVeoSetup()
HandleBatchGenerateTransitions ==
    /\ batch.pc = "idle"
    /\ batch' = [batch EXCEPT !.pc = "setup"]
    /\ UNCHANGED <<exportVars, enc, cv, sub, player, app, topics, veo>>

\* lines 226-256: checkVeoSetup settled
CheckVeoSetupSettled ==
    /\ batch.pc = "setup"
    /\ \E ready \in BOOLEAN :
         batch' = IF ~ready
                  THEN [batch EXCEPT !.pc = "done"]
                  ELSE RunLoop([batch EXCEPT !.isBatchGenerating = TRUE])
    /\ UNCHANGED <<exportVars, enc, cv, sub, player, app, topics, veo>>

\* lines 256-273: generateVeoSequence returned a URL, returned null or threw
GenerateVeoSequenceSettled ==
    /\ batch.pc = "request"
    /\ \E outcome \in {"url", "null", "throws"} :
         batch' = AfterRequest(IF outcome = "url"
                               THEN [batch EXCEPT !.urls[batch.i + 1] = TRUE,
                                                  !.successCount = @ + 1]
                               ELSE batch)
    /\ UNCHANGED <<exportVars, enc, cv, sub, player, app, topics, veo>>

\* lines 268-271: one second of the cool-down is over
CooldownTick ==
    /\ batch.pc = "cooling"
    /\ batch' = IF batch.s > 1
                THEN [batch EXCEPT !.s = @ - 1, !.waited = @ + 1]
                ELSE RunLoop([batch EXCEPT !.s = 0, !.waited = @ + 1, !.i = @ + 1])
    /\ UNCHANGED <<exportVars, enc, cv, sub, player, app, topics, veo>>

\* lines 189-209: handleGenerateTransition of the scene on screen, started
\* before or during the run, wrote its clip into the scene
HandleGenerateTransitionDone ==
    /\ batch.pc \in {"setup", "request", "cooling"}
    /\ \E k \in 1..(Len(batch.urls) - 1) :
         /\ batch.images[k]
         /\ batch.images[k + 1]
         /\ ~batch.urls[k]
         /\ batch' = [batch EXCEPT !.urls[k] = TRUE]
    /\ UNCHANGED <<exportVars, enc, cv, sub, player, app, topics, veo>>

BatchNext ==
    \/ HandleBatchGenerateTransitions
    \/ CheckVeoSetupSettled
    \/ GenerateVeoSequenceSettled
    \/ CooldownTick
    \/ HandleGenerateTransitionDone

BatchSpec == BatchInit /\ [][BatchNext]_vars

\* ------------------------- generateVeoScene and generateVeoTransition, one call
\* The errors a run can throw, by their message, a text in pieces: those of
\* the service and of fetch, and the one the run throws itself (lines 867, 931)
ServiceErrors ==
    { [message |-> m] :
        m \in { <<"Requested entity was not found", ".">>,
                <<"got status: ", "404", " Not Found">>,
                <<"Failed to fetch">>,
                <<>> } }
DownloadError(fn) ==
    [message |-> IF fn = "scene" THEN <<"Failed to download video bytes">>
                 ELSE <<"Failed to download transition video bytes">>]

\* lines 878, 941: e.message || JSON.stringify(e); an Error without a message
\* is written as {}
ErrorMsg(e) == IF e.message # <<>> THEN e.message ELSE <<"{}">>

\* lines 879, 942
IsNotFound_Any(e) == TRUE
IsNotFound(e) ==
    \/ Includes(ErrorMsg(e), "Requested entity was not found")
    \/ Includes(ErrorMsg(e), "404")

\* lines 875-890 and 939-950: executeGeneration threw e
Thrown(v, e) ==
    IF v.runs = 1
    THEN IF IsNotFound(e) /\ v.host
         THEN [v EXCEPT !.pc = "openSelectKey", !.thrown = e, !.dialogs = @ + 1]
         ELSE [v EXCEPT !.pc = "returned", !.thrown = e, !.result = "null"]
    ELSE [v EXCEPT !.pc = "returned", !.result = "rejected"]

\* lines 816-856 and 897-921: executeGeneration up to await generateVideos
ExecuteGeneration(v) == [v EXCEPT !.pc = "generateVideos", !.runs = @ + 1, !.polls = 0]

\* lines 858-871 and 923-935: the operation is done
OperationDone(v, uri) ==
    IF uri THEN [v EXCEPT !.pc = "fetch"]
    ELSE [v EXCEPT !.pc = "returned", !.result = "null"]

VeoInit ==
    /\ ExportInit
    /\ story = [cover |-> FALSE, n |-> 1, transitionVideoUrl |-> <<FALSE>>]
    /\ enc = EncIdle
    /\ cv = CvIdle
    /\ sub = SubIdle
    /\ player = PlayerIdle
    /\ app = AppIdle
    /\ topics = TopicsIdle
    /\ batch = BatchIdle
    /\ veo \in { [VeoIdle EXCEPT !.pc = "checkVeoSetup", !.fn = f, !.host = h] :
                   f \in {"scene", "transition"}, h \in BOOLEAN }

\* lines 792-814, 895: checkVeoSetup without a host returns at once; with one
\* it asks hasSelectedApiKey
CheckVeoSetup ==
    /\ veo.pc = "checkVeoSetup"
    /\ veo' = IF veo.host THEN [veo EXCEPT !.pc = "hasSelectedApiKey"]
              ELSE ExecuteGeneration(veo)
    /\ UNCHANGED <<exportVars, enc, cv, sub, player, app, topics, batch>>

\* lines 796-807: hasSelectedApiKey settled; without a key the dialog opens
HasSelectedApiKeySettled ==
    /\ veo.pc = "hasSelectedApiKey"
    /\ \E outcome \in {"key", "noKey", "throws"} :
         veo' = IF outcome = "noKey"
                THEN [veo EXCEPT !.pc = "setupDialog", !.dialogs = @ + 1]
                ELSE ExecuteGeneration(veo)
    /\ UNCHANGED <<exportVars, enc, cv, sub, player, app, topics, batch>>

\* lines 798-806: the dialog of checkVeoSetup closed or failed; either way
\* checkVeoSetup returns and its result is not read (lines 814, 895)
SetupDialogSettled ==
    /\ veo.pc = "setupDialog"
    /\ veo' = ExecuteGeneration(veo)
    /\ UNCHANGED <<exportVars, enc, cv, sub, player, app, topics, batch>>

\* lines 832-858 and 905-923: generateVideos settled
GenerateVideosSettled ==
    /\ veo.pc = "generateVideos"
    /\ \/ \E e \in ServiceErrors : veo' = Thrown(veo, e)
       \/ veo' = [veo EXCEPT !.pc = "polling"]
       \/ \E uri \in BOOLEAN : veo' = OperationDone(veo, uri)
    /\ UNCHANGED <<exportVars, enc, cv, sub, player, app, topics, batch>>

\* lines 858-861 and 923-926: five seconds later getVideosOperation settled
PollSettled ==
    /\ veo.pc = "polling"
    /\ \/ \E e \in ServiceErrors : veo' = Thrown(veo, e)
       \/ /\ veo.polls < MaxPolls
          /\ veo' = [veo EXCEPT !.polls = @ + 1]
       \/ \E uri \in BOOLEAN : veo' = OperationDone(veo, uri)
    /\ UNCHANGED <<exportVars, enc, cv, sub, player, app, topics, batch>>

\* lines 866-869 and 930-933: fetch settled
FetchSettled ==
    /\ veo.pc = "fetch"
    /\ \/ veo' = [veo EXCEPT !.pc = "returned", !.result = "url"]
       \/ veo' = Thrown(veo, DownloadError(veo.fn))
       \/ veo' = Thrown(veo, [message |-> <<"Failed to fetch">>])
    /\ UNCHANGED <<exportVars, enc, cv, sub, player, app, topics, batch>>

\* lines 883-885 and 945-946: the key dialog closed, and the generation is
\* run once more, or openSelectKey rejected
OpenSelectKeySettled ==
    /\ veo.pc = "openSelectKey"
    /\ \/ veo' = ExecuteGeneration(veo)
       \/ veo' = [veo EXCEPT !.pc = "returned", !.result = "rejected"]
    /\ UNCHANGED <<exportVars, enc, cv, sub, player, app, topics, batch>>

VeoNext ==
    \/ CheckVeoSetup
    \/ HasSelectedApiKeySettled
    \/ SetupDialogSettled
    \/ GenerateVideosSettled
    \/ PollSettled
    \/ FetchSettled
    \/ OpenSelectKeySettled

VeoSpec == VeoInit /\ [][VeoNext]_vars

\* ---------------------- generateRecommendedTopics and handleRefreshTopics
\* App.tsx lines 40, 44, 53 and part_000 line 993: the two default lists
StaticTopics == <<"sangu", "zhenghe", "changcheng", "mulan">>
DefaultTopics == <<"caochuan", "kongrong", "danao", "nezha">>

\* What ai.models.generateContent can do: throw, or answer with no text,
\* with a text that is no JSON, with the JSON of an object, or with the JSON
\* of an array of 0..MaxTopics titles
Responses ==
    {[kind |-> "throws", len |-> 0], [kind |-> "noText", len |-> 0],
     [kind |-> "notJSON", len |-> 0], [kind |-> "object", len |-> 0]}
        \cup { [kind |-> "array", len |-> n] : n \in 0..MaxTopics }

\* JSON.parse of an array text, lines 1012-1014
ParsedArray(response) == [k \in 1..response.len |-> "topic"]

\* parsed.slice(0, 4), line 1014
Slice4_All(list) == list
Slice4(list) == SubSeq(list, 1, IF Len(list) < 4 THEN Len(list) ELSE 4)

\* part_000 lines 995-1024: what generateRecommendedTopics returns
GenerateRecommendedTopics(response) ==
    [rejected |-> FALSE,
     value |-> IF response.kind = "array" /\ Len(ParsedArray(response)) > 0
               THEN Slice4(ParsedArray(response))
               ELSE DefaultTopics]

\* App.tsx lines 31-35: handleRefreshTopics up to its await
RefreshTopics(t) ==
    IF t.screen.isTopicsLoading THEN t
    ELSE [t EXCEPT !.state.isTopicsLoading = TRUE,
                   !.started = @ + 1,
                   !.calls = @ \cup {t.started + 1}]

TopicsInit ==
    /\ ExportInit
    /\ story = [cover |-> FALSE, n |-> 1, transitionVideoUrl |-> <<FALSE>>]
    /\ enc = EncIdle
    /\ cv = CvIdle
    /\ sub = SubIdle
    /\ player = PlayerIdle
    /\ app = AppIdle
    /\ batch = BatchIdle
    /\ veo = VeoIdle
    /\ topics = TopicsIdle

\* App.tsx lines 51-55: the mount effect
TopicsMount ==
    /\ topics.pc = "idle"
    /\ topics' = RefreshTopics([topics EXCEPT !.pc = "mounted",
                                              !.state.recommendedTopics = StaticTopics])
    /\ UNCHANGED <<exportVars, enc, cv, sub, player, app, batch, veo>>

\* the render that follows a state set by the effect or by a continuation
TopicsRender ==
    /\ topics.screen # topics.state
    /\ topics' = [topics EXCEPT !.screen = topics.state]
    /\ UNCHANGED <<exportVars, enc, cv, sub, player, app, batch, veo>>

\* App.tsx lines 340-342: the refresh button, disabled while
\* isTopicsLoading; the state a click sets is rendered before the next event
HandleRefreshTopics ==
    /\ topics.pc = "mounted"
    /\ ~topics.screen.isTopicsLoading
    /\ topics.started < MaxRefreshes
    /\ LET called == RefreshTopics(topics)
       IN  topics' = [called EXCEPT !.screen = called.state]
    /\ UNCHANGED <<exportVars, enc, cv, sub, player, app, batch, veo>>

\* App.tsx lines 35-47: generateContent settled, generateRecommendedTopics
\* returned (or rejected), and the handler ran to its end
RefreshSettled ==
    /\ \E c \in topics.calls, response \in Responses :
         LET r == GenerateRecommendedTopics(response)
             shown == IF ~r.rejected /\ Len(r.value) > 0 THEN r.value
                      ELSE StaticTopics
         IN  topics' = [topics EXCEPT !.calls = @ \ {c},
                                      !.returned = r,
                                      !.state.recommendedTopics = shown,
                                      !.state.isTopicsLoading = FALSE]
    /\ UNCHANGED <<exportVars, enc, cv, sub, player, app, batch, veo>>

TopicsNext ==
    \/ TopicsMount
    \/ TopicsRender
    \/ HandleRefreshTopics
    \/ RefreshSettled

TopicsSpec == TopicsInit /\ [][TopicsNext]_vars

\* ------------------------------------------------------------------- claims
Terminal == {"complete", "failed", "setupFailed"}
InTransition == pc \in {"transClip", "transSynth"}
IsPrefix(s, t) == Len(s) <= Len(t) /\ SubSeq(t, 1, Len(s)) = s

\* scene 0, transition 0->1, scene 1, ..., scene n-1
SceneSegments(n) ==
    [k \in 1..(2 * n - 1) |->
        IF k % 2 = 1 THEN <<"scene", (k - 1) \div 2>>
                     ELSE <<"transition", (k \div 2) - 1>>]

ExpectedSegments(cover, n) ==
    (IF cover THEN << <<"intro">> >> ELSE << >>)
        \o SceneSegments(n) \o << <<"outro">> >>

\* C1: the segments a run starts are, in order, an intro iff a cover was
\* supplied, then scene 0, transition 0->1, scene 1, ..., scene N-1, then one
\* outro: at every moment the segments started so far are a prefix of that
\* sequence, and a run that finishes rendering has started all of it.
C1_SegmentSequence ==
    /\ IsPrefix(segLog, ExpectedSegments(story.cover, story.n))
    /\ pc \in {"hold", "stopping", "complete"}
          => segLog = ExpectedSegments(story.cover, story.n)

C1_Witness ==
    /\ pc = "complete"
    /\ story.cover
    /\ story.n >= 2
    /\ Len(segLog) = 2 * story.n + 1

\* C2 as stated: a scene whose narration decoded to a buffer of duration d
\* lasts max(d, 3.0) seconds.
C2_AsStated ==
    (pc = "scene" /\ audioBuffer # NoBuffer)
        => duration = Max(audioBuffer, Seconds(3, 1))

\* C2 amended: a scene whose narration decoded to a buffer of duration d
\* lasts max(d, 2.0) seconds.
C2_SceneDurationWithAudio ==
    (pc = "scene" /\ audioBuffer # NoBuffer)
        => duration = Max(audioBuffer, Seconds(2, 1))

C2_Witness ==
    /\ pc = "scene"
    /\ audioBuffer = Seconds(1, 1)
    /\ duration = Seconds(2, 1)
    /\ canvas = "scene"

\* C3: every scene segment lasts at least 2.0 s and every intro, transition
\* (clip or synthesized) and outro has a duration above zero, also when the
\* transition clip reports a duration of 0 or no duration at all.
C3_DurationsPositive ==
    /\ pc = "scene" => duration >= Seconds(2, 1)
    /\ pc \in {"intro", "transClip", "transSynth", "outro"}
          => (duration = Infinity \/ duration > 0)

C3_Witness ==
    /\ pc = "transClip"
    /\ clipDur \in {0, NaN}
    /\ canvas = "clip"

\* C4 as stated: when scene i carries a transition clip reference, transition
\* i->i+1 is rendered from the clip and never by the slide, whatever happened
\* while the clip was loading.
C4_AsStated ==
    (InTransition /\ story.transitionVideoUrl[i + 1])
        => (pc = "transClip" /\ canvas # "slide")

\* The index (1-based) of the transition whose frame is on the canvas.
DrawnTransition == IF InTransition THEN i + 1 ELSE i

\* C4 amended: transition i->i+1 is rendered from the clip for its whole
\* length exactly when the clip of scene i finished loading; when the
\* reference is set but the load failed or timed out, and when there is no
\* reference, the synthesized slide is used.
C4_ClipModeWhenLoaded ==
    /\ InTransition => (pc = "transClip" <=> transitionAssets[i + 1] = "vid")
    /\ pc = "transClip" => canvas \in {"scene", "clip"}
    /\ pc = "transSynth" => canvas \in {"scene", "slide"}
    /\ canvas = "clip" => transitionAssets[DrawnTransition] = "vid"
    /\ canvas = "slide" => transitionAssets[DrawnTransition] = "null"
    /\ \A k \in 1..Len(transitionAssets) :
          transitionAssets[k] = "vid" => story.transitionVideoUrl[k]

C4_Witness ==
    /\ pc = "transClip"
    /\ story.transitionVideoUrl[i + 1]
    /\ canvas = "clip"
    /\ elapsed > FRAME_INTERVAL

\* C5 as stated: a clip transition lasts exactly the clip's own duration, with
\* no substitution, and a synthesized slide lasts 1.0 s.
C5_AsStated ==
    /\ pc = "transClip" => duration = clipDur
    /\ pc = "transSynth" => duration = Seconds(1, 1)

\* C5 amended: a clip transition lasts the clip's own duration when that is a
\* number other than 0, and 2.0 s when the clip reports 0 or no duration; a
\* synthesized slide lasts 1.0 s.
C5_TransitionDuration ==
    /\ pc = "transClip"
          => duration = (IF clipDur = 0 \/ clipDur = NaN THEN Seconds(2, 1)
                         ELSE clipDur)
    /\ pc = "transSynth" => duration = Seconds(1, 1)

C5_Witness ==
    /\ pc = "transClip"
    /\ clipDur = Seconds(2, 3)
    /\ duration = Seconds(2, 3)
    /\ canvas = "clip"

\* The number of boundaries between the parts rendered since scene 0: one
\* after each segment, the outro counting as a fade and a hold.
Boundaries == Len(SelectSeq(segLog, LAMBDA g : g # <<"intro">>)) + 1

C7_AsStated == <>(pc \in Terminal)

\* C7 amended: every export eventually resolves or rejects, unless it enters
\* a transition whose clip reports an unbounded duration; it settles at most
\* once, resolved exactly when complete and rejected exactly when failed.
C7_Terminates ==
    /\ [](promise = "resolved" <=> pc = "complete")
    /\ [](promise = "rejected" <=> pc \in {"failed", "setupFailed"})
    /\ <>(pc \in Terminal \/ (pc = "transClip" /\ duration = Infinity))

C7_Witness ==
    /\ pc = "complete"
    /\ promise = "resolved"
    /\ recorder = "inactive"
    /\ \E k \in 1..Len(transitionAssets) : transitionAssets[k] = "vid"

\* C8: whenever generateStoryVideo has returned control after creating the
\* audio context, the audio clock is closed and the encoder is stopped.
C8_CleanupOnEveryExit ==
    pc \in {"setupFailed", "failed", "stopping", "complete"}
        => /\ audioCtx = "closed"
           /\ recorder \in {"stopping", "inactive"}

\* C9: when the run failed after the encoder had started, the data encoded so
\* far is finalized into a blob that reaches the caller.
C9_BlobOnFailure ==
    (pc = "failed" /\ recorder = "inactive") => blob = "blob"

\* C10: every frame is composited while the encoder is recording, and the
\* encoder is stopped only after the render loop has ended (all segments
\* rendered, or failed).
C10_RecordingBracketsFrames ==
    /\ drawRec \in {"none", "recording"}
    /\ canvas # "none" => recorder # "none"
    /\ (pc # "setupFailed" /\ recorder \in {"stopping", "inactive"})
          => pc \in {"failed", "stopping", "complete"}
    /\ pc \in {"intro", "introPause", "scene", "transClip", "transSynth",
               "outro", "hold", "sceneInit", "preload", "loadCover"}
          => recorder = "recording"

C10_Witness ==
    /\ pc = "complete"
    /\ drawRec = "recording"
    /\ canvas = "black"

FirstEvent(c) == Head(lv[c].events)

\* C12: every loadVideo promise is pending until one of its three events
\* fires and then holds for good what the first event gave it (the clip for
\* "loaded", nothing for an error or the timeout), whatever fires later; a
\* scene whose clip was asked for gets the clip in the table exactly when
\* "loaded" came first and the still image otherwise, and a transition entry
\* is the clip exactly when "loaded" came first.
C12_FirstEventWins ==
    /\ \A c \in DOMAIN lv :
          lv[c].promise =
             IF lv[c].events = <<>> THEN "pending"
             ELSE IF FirstEvent(c) = "loadeddata" THEN "vid" ELSE "null"
    /\ \A k \in 1..Len(visualAssets) :
          IF <<"scene", k - 1>> \in DOMAIN lv
          THEN /\ lv[<<"scene", k - 1>>].events # <<>>
               /\ visualAssets[k] =
                     (IF FirstEvent(<<"scene", k - 1>>) = "loadeddata"
                      THEN "vid" ELSE "img")
          ELSE visualAssets[k] = "img"
    /\ \A k \in 1..Len(transitionAssets) :
          IF <<"transition", k - 1>> \in DOMAIN lv
          THEN /\ lv[<<"transition", k - 1>>].events # <<>>
               /\ transitionAssets[k] =
                     (IF FirstEvent(<<"transition", k - 1>>) = "loadeddata"
                      THEN "vid" ELSE "null")
          ELSE transitionAssets[k] = "null"

\* The clip of scene 0 finished loading after its timeout had fired.
C12_Witness ==
    /\ Len(visualAssets) = story.n
    /\ <<"scene", 0>> \in DOMAIN lv
    /\ lv[<<"scene", 0>>].events = <<"timeout", "loadeddata">>
    /\ visualAssets[1] = "img"

\* The positions at which a segment is being, or has been, composited.
Rendering ==
    {"intro", "introPause", "sceneInit", "scene", "transClip", "transSynth",
     "outro", "hold", "stopping", "complete"}

\* C13: from the first segment on, the cover load has settled, and the visual
\* table and the transition table hold a settled entry for every one of the N
\* scenes; nothing is drawn before that; while a scene is composited its
\* narration decode has settled (the source runs exactly when a buffer came
\* out of it) and the scene's length is the one computed from that buffer.
C13_AssetsReadyBeforeSegment ==
    /\ (pc \in Rendering \/ canvas # "none")
          => /\ Len(visualAssets) = story.n
             /\ Len(transitionAssets) = story.n
             /\ \A k \in 1..story.n :
                   /\ visualAssets[k] \in {"img", "vid"}
                   /\ transitionAssets[k] \in {"vid", "null"}
             /\ coverAsset = (IF story.cover THEN "img" ELSE "null")
    /\ pc = "intro" => coverAsset = "img"
    /\ pc = "scene"
          => /\ source = (audioBuffer # NoBuffer)
             /\ duration = Max(IF audioBuffer # NoBuffer THEN audioBuffer
                                ELSE Seconds(3, 1), Seconds(2, 1))

C13_Witness ==
    /\ pc = "scene"
    /\ canvas = "scene"
    /\ i = 1
    /\ story.cover
    /\ visualAssets[2] = "vid"
    /\ audioBuffer # NoBuffer

ClockTimed == {"intro", "scene", "transClip", "transSynth", "outro"}
TimerTimed == {"introPause", "hold"}

C15_AudioStartsAtSegmentStart ==
    (pc = "scene" /\ source) => audioLead = 0

\* What a frame of each clock-timed segment puts on the canvas.
FrameOf(part) ==
    CASE part = "intro" -> "cover"
      [] part = "scene" -> "scene"
      [] part = "transClip" -> "clip"
      [] part = "transSynth" -> "slide"
      [] part = "outro" -> "fade"

\* A step taken inside a clock-timed segment either draws a frame of it, with
\* elapsed below the duration, or leaves it, with elapsed at or above it.
FrameStep ==
    pc \in ClockTimed =>
       /\ (pc' = pc)
             => /\ (duration = Infinity \/ elapsed < duration)
                /\ canvas' = FrameOf(pc)
       /\ (duration # Infinity /\ elapsed >= duration)
             => /\ pc' # pc
                /\ canvas' \in {canvas, "black"}
       /\ (pc' \notin {pc, "failed"})
             => (duration # Infinity /\ elapsed >= duration)

\* C16: in the intro, a scene, a clip transition, a synthesized transition and
\* the fade, a tick composites a frame of the segment only when elapsed is
\* strictly below the segment's duration; at a tick with elapsed >= duration
\* the loop leaves the segment and draws no frame of it; and the loop leaves
\* only at such a tick.
C16_FrameOnlyBeforeDuration == [][FrameStep]_vars

\* The tick that leaves a slide some frames of which were drawn.
C16_Witness ==
    /\ pc = "transSynth"
    /\ canvas = "slide"
    /\ elapsed >= duration

\* C17: the percents handed to the progress callback in one run never
\* decrease and all lie in 0..100 (the log holds percent * N).
C17_ProgressMonotone ==
    \A m \in 1..Len(progLog) :
       /\ progLog[m][1] >= 0
       /\ progLog[m][1] <= 100 * story.n
       /\ m > 1 => progLog[m - 1][1] <= progLog[m][1]

C17_Witness ==
    /\ pc = "outro"
    /\ story.cover
    /\ story.n = 2
    /\ progLog[Len(progLog)][1] = 99 * story.n
    /\ progLog[Len(progLog) - 1][1] = 55 * story.n

ExpectedProgress(cover, n) ==
    LET c == IF cover THEN 1 ELSE 0 IN
    (IF cover THEN << <<0, 0>> >> ELSE << >>)
        \o [k \in 1..n |-> <<20 * (k - 1), 0>>]
        \o [k \in 1..n |-> <<20 * n + 70 * (k - 1), c + 2 * (k - 1)>>]
        \o << <<99 * n, c + 2 * n - 1>> >>

UnpausedSceneClips == { c \in playing : c[1] = "scene" }

\* C19: a scene clip is left unpaused only while its own scene, or a segment
\* that draws it, is still to finish: the clips of scenes before the current
\* one are paused, and once the fade is over no scene clip is left unpaused.
C19_ClipsPausedWhenDone ==
    /\ \A c \in UnpausedSceneClips :
          pc \in {"sceneInit", "scene", "transClip", "transSynth", "outro"}
             => c[2] >= i - 1
    /\ pc \in {"hold", "stopping", "complete"} => UnpausedSceneClips = {}

Preloaded == pc \notin {"start", "setupFailed", "loadCover", "preload"}

\* Once the preload is over no step changes either table, and the segments
\* follow the tables: a transition is a clip transition exactly when the table
\* holds a clip for it, and the scene's clip plays exactly when the table
\* holds a clip for the scene.
TablesFrozen ==
    /\ Preloaded => /\ visualAssets' = visualAssets
                    /\ transitionAssets' = transitionAssets
    /\ pc' \in {"transClip", "transSynth"}
          => (pc' = "transClip" <=> transitionAssets[i' + 1] = "vid")
    /\ pc' = "scene"
          => (<<"scene", i'>> \in playing' <=> visualAssets[i' + 1] = "vid")

\* C20: after the preload loop the visual-asset table and the transition
\* table of the export never change, and a videoUrl or transitionVideoUrl that
\* a generation handler writes into the story after that point changes no
\* segment: each transition and each scene is rendered from the table entry.
C20_TablesImmutableAfterPreload == [][TablesFrozen]_vars

\* A transition reference written during the export, after the preload, and
\* the slide still rendered for that transition.
C20_Witness ==
    /\ pc = "transSynth"
    /\ canvas = "slide"
    /\ story.transitionVideoUrl[i + 1]
    /\ <<"transitionVideoUrl", i>> \in edits
    /\ transitionAssets[i + 1] = "null"

\* C21: a scene without narration audio, or whose audio did not decode, has
\* no audio source started, a segment duration of exactly 3.0 s, and the
\* export goes on to the next segment after it.
C21_SilentScene ==
    /\ (pc = "scene" /\ audioBuffer = NoBuffer)
          => /\ ~source
             /\ audioLead = 0
             /\ duration = Seconds(3, 1)
    /\ (pc \in {"transClip", "transSynth", "outro"} /\ audioBuffer = NoBuffer)
          => /\ ~source
             /\ segLog[Len(segLog) - 1][1] = "scene"

\* A silent scene 0 was rendered and the slide to scene 1 is being drawn.
C21_Witness ==
    /\ pc = "transSynth"
    /\ i = 0
    /\ audioBuffer = NoBuffer
    /\ canvas = "slide"

\* C22: with a cover the intro lasts 3.0 s of audio-clock time and a black
\* pause of 0.3 s follows before scene 0; with a cover and one silent
\* image-only scene the rendering takes 3.0 + 0.3 + 3.0 + 1.5 + 0.5 = 8.3 s,
\* exceeded by no more than the lateness of the five timers that end the
\* parts and the time awaited for the audio decode of the scene.
C22_CoverScenario ==
    /\ pc = "intro" => duration = Seconds(3, 1)
    /\ pc = "introPause"
          => /\ duration = Millis(300)
             /\ canvas = "black"
             /\ overrun \in 0..MaxJitter
    /\ (/\ pc = "hold"
        /\ story.cover /\ story.n = 1
        /\ visualAssets = <<"img">>
        /\ audioBuffer = NoBuffer)
          => LET total == introDuration + introPause + SceneDuration(audioBuffer)
                            + fadeDuration + finalHold + overrun
             IN  /\ segLog = <<(<<"intro">>), (<<"scene", 0>>), (<<"outro">>)>>
                 /\ total >= Seconds(83, 10)
                 /\ total <= Seconds(83, 10) + 5 * MaxJitter + MaxLatency

\* The scenario rendered to its end, every timer late.
C22_Witness ==
    /\ pc = "hold"
    /\ story.cover /\ story.n = 1
    /\ visualAssets = <<"img">>
    /\ audioBuffer = NoBuffer
    /\ overrun = 5 * MaxJitter + MaxLatency

ProbeOrder == <<"mp4-avc1", "mp4", "webm-vp9">>

\* C23: whatever the runtime supports, the encoder format is the first
\* supported one of MP4 with H.264+AAC, generic MP4, WebM with VP9, and generic
\* WebM when none of them is; the blob's type is video/mp4 exactly when one of
\* the first two was selected, and the downloaded file's extension is mp4
\* exactly then and webm otherwise.
C23_FormatSelection ==
    LET first == { k \in DOMAIN ProbeOrder : ProbeOrder[k] \in enc.supported }
        chosen == IF first = {} THEN "webm"
                  ELSE ProbeOrder[CHOOSE k \in first : \A m \in first : k <= m]
        isMp4 == chosen \in {"mp4-avc1", "mp4"}
    IN  /\ enc.pc \notin {"idle", "select"} => enc.mimeType = MimeText(chosen)
        /\ enc.pc \in {"resolved", "downloaded", "previewed"}
             => enc.blobType = IF isMp4 THEN <<"video/", "mp4">> ELSE <<"video/webm">>
        /\ enc.pc = "downloaded" => enc.ext = IF isMp4 THEN "mp4" ELSE "webm"

\* A file downloaded from a runtime that records MP4 only with the codecs named.
C23_Witness ==
    /\ enc.pc = "downloaded"
    /\ enc.supported = {"mp4-avc1", "webm"}
    /\ enc.ext = "mp4"

LastAsset == cv.assets[Len(cv.assets)]

\* C24 as stated: with a still image as the last scene's asset, the outro
\* draws it at the scale the last scene segment ended with (progress 1), for
\* either parity of that scene's index, and keeps that scale during the outro,
\* under a black overlay whose opacity is the progress of the 1.5 s.
C24_OutroHoldsLastFrame ==
    (cv.part = "outro" /\ cv.e >= 0 /\ LastAsset = "img")
        => /\ cv.px[1].op = "asset"
           /\ cv.px[1].scale = KenBurnsScale(Len(cv.assets) - 1, Samples)
           /\ cv.px[Len(cv.px)].op = "fill"
           /\ cv.px[Len(cv.px)].alpha = 1000 * cv.e

\* C25: a still-image scene frame at progress p = e/Samples is drawn at the
\* scale that goes linearly from 1.10 to 1.25 when the scene index is even and
\* from 1.25 to 1.10 when it is odd; a scene whose asset is a clip is drawn at
\* scale 1.0 at every progress.
C25_KenBurnsScale ==
    (cv.part = "scene" /\ cv.e >= 0)
        => LET asset == cv.assets[cv.k + 1]
               from == IF cv.k % 2 = 0 THEN 1100 ELSE 1250
               to == IF cv.k % 2 = 0 THEN 1250 ELSE 1100
           IN  /\ asset = "img"
                    => /\ cv.px[1].op = "asset"
                       /\ cv.px[1].what = <<"img", cv.k, 0>>
                       /\ cv.px[1].scale = (Samples - cv.e) * from + cv.e * to
                       /\ KenBurnsScale(cv.k, 0) = from * Samples
                       /\ KenBurnsScale(cv.k, Samples) = to * Samples
               /\ asset = "vid"
                    => /\ cv.px[1].op = "asset"
                       /\ cv.px[1].what[1] = "vid"
                       /\ cv.px[1].scale = Unit

\* The last sampled frame of an odd-indexed still-image scene.
C25_Witness ==
    /\ cv.part = "scene"
    /\ cv.k = 1
    /\ cv.e = Samples - 1
    /\ cv.assets[2] = "img"
    /\ cv.px[1].scale < 1250 * Samples
    /\ cv.px[1].scale > 1100 * Samples

FrameParts == {"intro", "scene", "transClip", "transSynth", "outro"}

\* The frame a compositing call for (part, k, e) leaves on canvas c, the
\* clips at the positions given.
Composite(c, part, k, e, posA, posB) ==
    CASE part = "intro" -> IntroFrame(c, e)
      [] part = "scene" -> SceneFrame(c, k, e, posA)
      [] part = "transClip" -> ClipFrame(c, k, posA)
      [] part = "transSynth" -> DrawCinematicTransition(c, k, e, posA, posB)
      [] OTHER -> OutroFrame(c, e, posA)

\* The canvas as getContext gives it, before any frame.
FreshCanvas == [cv EXCEPT !.px = <<>>, !.fillStyle = Black]

AssetsDrawn ==
    CASE cv.part = "intro" -> {cv.cover}
      [] cv.part = "scene" -> {cv.assets[cv.k + 1]}
      [] cv.part = "transClip" -> {"vid"}
      [] cv.part = "transSynth" -> {cv.assets[cv.k + 1], cv.assets[cv.k + 2]}
      [] cv.part = "outro" -> {LastAsset}
      [] OTHER -> {}

C27_AsStated ==
    sub.pc = "drawn"
        => \A k \in DOMAIN sub.lines :
             MeasureText(sub.font, sub.lines[k]) <= sub.w - 4 * Padding

\* C27 amended: when no single word (a character of the text, or the word
\* "undefined" that stands for an empty text) is wider than canvasWidth -
\* 4 * padding, no line is; a line of two characters or more is narrower.
C27_LinesWithinWidth ==
    (/\ sub.pc = "drawn"
     /\ \A k \in DOMAIN sub.lines : \A m \in DOMAIN sub.lines[k] :
          GlyphWidth(sub.font, sub.lines[k][m]) <= sub.w - 4 * Padding)
        => \A k \in DOMAIN sub.lines :
             /\ MeasureText(sub.font, sub.lines[k]) <= sub.w - 4 * Padding
             /\ Len(sub.lines[k]) > 1
                  => MeasureText(sub.font, sub.lines[k]) < sub.w - 4 * Padding

\* A text wrapped into several lines, one of them of mixed glyphs.
C27_Witness ==
    /\ sub.pc = "drawn"
    /\ Len(sub.lines) >= 3
    /\ sub.font["b"] <= sub.w - 4 * Padding
    /\ \E k \in DOMAIN sub.lines :
         /\ Len(sub.lines[k]) >= 3
         /\ \E m \in DOMAIN sub.lines[k] : sub.lines[k][m] # sub.lines[k][1]

\* C28: for every text, in wide and in tall mode, line count * line height
\* plus the panel's padding is no more than the height of the canvas above the
\* bottom margin, so that the panel's top is on the canvas.
C28_PanelFits ==
    sub.pc = "drawn"
        => LET wide == sub.w > sub.h
               lineHeight == IF wide THEN 504 ELSE 560
               bottomMargin == IF wide THEN 600 ELSE 1500
           IN  /\ Len(sub.lines) * lineHeight + 480 <= sub.h * 10 - bottomMargin
               /\ BgY(Len(sub.lines), sub.h, sub.w) >= 0

\* C29: at most one export, a generateStoryVideo call started by
\* handleExportVideo or handlePreviewFullVideo, is in flight at any time,
\* however the user's clicks interleave with the renders.
C29_AtMostOneExport == Len(player.exports) <= 1

\* C30: once the scene shown has changed, no narration of another scene is
\* playing or starts playing, also when the change comes while playAudio is
\* decoding, and isPlaying stays false until play is pressed again.
C30_NoAudioAfterSceneChange ==
    player.state.currentIndex = player.screen.currentIndex
        => /\ \A s \in player.sounding : s.scene = player.screen.currentIndex
           /\ player.state.isPlaying => player.pressed

\* C31: no story written to local storage carries a scene videoUrl or
\* audioData, whether it was written by saving a new story or by deleting a
\* story.
C31_StorageCarriesNoMedia ==
    \A k \in DOMAIN app.storage :
        /\ app.storage[k].videoUrl = "absent"
        /\ app.storage[k].audioData = "absent"

\* C38: a story that handleDeleteStory removed is neither in the saved-story
\* list nor in local storage afterwards (ids are never reused), also when
\* handleGenerate was running at the time of the deletion and saves later.
C38_DeletedStaysDeleted ==
    \A id \in app.deleted :
        /\ \A k \in DOMAIN app.state.savedStories : app.state.savedStories[k] # id
        /\ \A k \in DOMAIN app.storage : app.storage[k].id # id

\* C32: within one run of handleBatchGenerateTransitions at least 35
\* one-second waits lie between two consecutive generation requests, no
\* request is made for a scene that has a transition clip at that time, and
\* isBatchGenerating is false when the run has ended.
C32_BatchRun ==
    /\ \A k \in DOMAIN batch.requests :
         /\ k > 1 => batch.requests[k].waited >= Cooldown
         /\ ~batch.requests[k].had
    /\ batch.pc = "done" => ~batch.isBatchGenerating

\* A run that made two requests or more has ended, and a scene it made no
\* request for has a clip.
C32_Witness ==
    /\ batch.pc = "done"
    /\ Len(batch.requests) >= 2
    /\ \E k \in 1..TotalTransitions(batch) :
         /\ batch.urls[k]
         /\ \A m \in DOMAIN batch.requests : batch.requests[m].scene # k - 1

\* C33: one call of generateVeoScene or generateVeoTransition runs the
\* generation at most twice; it runs it a second time only after the first
\* run threw an error whose message holds "Requested entity was not found" or
\* "404" and while window.aistudio exists; after any other failure of the
\* first run the call has returned null without a second run.
C33_AtMostOneRetry ==
    /\ veo.runs <= 2
    /\ veo.runs = 2 =>
         /\ veo.host
         /\ \/ Includes(veo.thrown.message, "Requested entity was not found")
            \/ Includes(veo.thrown.message, "404")
    /\ (/\ veo.thrown # NoError
        /\ ~(/\ veo.host
             /\ \/ Includes(veo.thrown.message, "Requested entity was not found")
                \/ Includes(veo.thrown.message, "404")))
         => /\ veo.runs = 1
            /\ veo.pc = "returned"
            /\ veo.result = "null"

\* The second run, started after a 404 of the first, came to a URL.
C33_Witness ==
    /\ veo.runs = 2
    /\ veo.result = "url"
    /\ Includes(veo.thrown.message, "404")

\* what holds at a step that ends a handleRefreshTopics call
C34_Settles ==
    topics'.calls # topics.calls /\ topics'.calls \subseteq topics.calls
        => /\ ~topics'.returned.rejected
           /\ Len(topics'.returned.value) \in 1..4
           /\ ~topics'.state.isTopicsLoading
           /\ Len(topics'.state.recommendedTopics) \in 1..4

\* C34: whatever generateContent does, generateRecommendedTopics does not
\* reject and returns a list of 1..4 topics; and at the step in which a
\* handleRefreshTopics call settles, isTopicsLoading is false and the topic
\* list to display has 1..4 entries.
C34_TopicsSettle == [][C34_Settles]_vars

\* A call answered with four titles or more has settled while another call
\* is still in flight.
C34_Witness ==
    /\ topics.returned.value = <<"topic", "topic", "topic", "topic">>
    /\ topics.calls # {}
    /\ ~topics.state.isTopicsLoading

\* what holds at a step that stops or is about to start a narration source
C35_Step ==
    /\ (source /\ ~source') =>
         /\ audioBuffer # NoBuffer
         /\ audioLead + elapsed >= audioBuffer
    /\ pc' = "sceneInit" => ~source'

\* C35: the narration of a scene is not cut short in an export: the step that
\* stops the source of a scene whose decoded audio lasts d comes when at
\* least d of audio-clock time has passed since the source was started, and
\* when the loop comes to start the source of a scene none is playing.
C35_NarrationNotCut == [][C35_Step]_vars

\* The source of a scene with 4.2 s of narration, started before the scene's
\* clip began to play, was stopped at the end of the scene.
C35_Witness ==
    /\ pc \in {"transClip", "transSynth", "outro"}
    /\ segLog[Len(segLog) - 1][1] = "scene"
    /\ visualAssets[segLog[Len(segLog) - 1][2] + 1] = "vid"
    /\ audioBuffer = Seconds(42, 10)
    /\ ~source

\* what holds at a step of the player as to isExporting
C36_Step ==
    /\ Len(player'.exports) < Len(player.exports) => ~player'.state.isExporting
    /\ player'.state.isExporting => player'.exports # <<>>

\* C36: in the step in which an export started by StoryPlayer settles, by
\* success or by failure, isExporting becomes false; and isExporting is not
\* true while no export is in flight.
C36_ExportingCleared == [][C36_Step]_vars

\* An export has failed, and none is in flight.
C36_Witness ==
    /\ player.settled = "rejected"
    /\ player.exports = <<>>
    /\ ~player.state.isExporting
    /\ ~player.state.showCoverModal

\* C37: in live playback at most one source node started by playAudio is
\* playing at any time, and a node that is playing is the one held in
\* sourceNodeRef, however togglePlay calls interleave with the decode.
C37_OneSourceInRef ==
    /\ Cardinality(player.sounding) <= 1
    /\ \A s \in player.sounding : s.node = player.sourceNodeRef

\* C39: for a story of N >= 1 scenes, currentIndex is within 0..N-1 after any
\* sequence of handleNext and handlePrev calls, in the state and on screen.
C39_IndexInRange ==
    /\ player.state.currentIndex \in 0..(story.n - 1)
    /\ player.screen.currentIndex \in 0..(story.n - 1)

\* The last scene of a story of several scenes is on screen, after
\* handleNext, and play was pressed on it.
C39_Witness ==
    /\ story.n > 1
    /\ player.screen.currentIndex = story.n - 1
    /\ player.state.currentIndex = story.n - 1
    /\ player.pressed

\* the lines joined in order
Joined(lines) ==
    LET cat[k \in 0..Len(lines)] == IF k = 0 THEN <<>> ELSE cat[k - 1] \o lines[k]
    IN  cat[Len(lines)]

\* C40: for every narration text, the empty text and a text of one character
\* included, the lines drawSubtitles produces, joined in order, are the text,
\* and no line is empty.
C40_WrapLosesNothing ==
    sub.pc = "drawn"
        => /\ Joined(sub.lines) = sub.text
           /\ \A k \in DOMAIN sub.lines : sub.lines[k] # <<>>

====
